---- MODULE Spec2Model ----
(***************************************************************************)
(* A model of Novi's daily intelligence report generator.                  *)
(*                                                                         *)
(*   Spec       one run of main / ReportGenerator.generate_report          *)
(*              (src/src/report_generator.py, src/src/utils/email_sender.py)*)
(*   SpecJobs   JobsCollector._categorize_jobs and its scoring functions   *)
(*              (src/src/data_collectors/jobs_collector.py)                *)
(***************************************************************************)
EXTENDS Integers, Sequences, FiniteSets, TLC

VARIABLES
    \* ---- one run of main() / generate_report() ----
    pc,             \* position of the run
    current_day,    \* ReportGenerator.current_day, 0 = Monday .. 6 = Sunday
    EXCLUDE_DAYS,   \* Config.EXCLUDE_DAYS
    config,         \* Config.EMAIL_FROM / EMAIL_PASSWORD / EMAIL_TO
    config_issues,  \* what validate_configuration returned ("unvalidated" before)
    data,           \* report_data: section -> value, or Absent
    flags,          \* has_market_data, has_jobs, has_sap_data, has_career_data
    invoked,        \* collector calls made so far
    raisedCalls,    \* collector calls that raised
    returned,       \* collector call -> the value it returned
    html,           \* the document: "none", "template" or "fallback"
    error,          \* the exception generate_report is propagating ("none" if none)
    loginFailed,    \* the report's send_email failed at server.login
    reportSends,    \* calls of send_email for the report
    reportSent,     \* emails delivered by server.sendmail for the report
    notifyAttempts, \* calls of send_email for the error notification
    notifySent,     \* error notifications delivered
    outcome,        \* "running", "skipped", "sent" or "failed"
    exitStatus,     \* process exit status of main, -1 while running
    \* ---- JobsCollector ----
    jobs,           \* the list of jobs handed to _categorize_jobs
    categorized,    \* its result: sap_category and ai_transition_category
    jobs_pc,        \* "idle", "collected" or "categorized"
    \* ---- StockCollector ----
    screener_rows,  \* category -> company rows the Screener.in page yields
    mc_rows,        \* category -> table rows the MoneyControl page yields
    mc_price,       \* the price _clean_number reads from a MoneyControl row
    yfinance,       \* the quote service: up or not, and the symbols it lacks
    stock_data,     \* large_cap, mid_cap and small_cap of get_stock_data
    stocks_pc,      \* "idle", "called" or "returned"
    \* ---- NewsCollector._parse_rss_feed ----
    now,            \* the clock read by datetime.now()
    utc_offset,     \* local time minus UTC on the host
    has_parse_date, \* hasattr(feedparser, '_parse_date')
    feed,           \* what feedparser.parse does for the URL
    limit,          \* the limit argument
    parsed,         \* the outcome of the call: raised or not, and the items
    feed_pc,        \* "idle", "called" or "returned"
    \* ---- NewsCollector._remove_duplicates ----
    news_items,     \* the argument
    unique_items,   \* the result
    dedup_pc,       \* "idle", "called" or "returned"
    \* ---- NewsCollector._filter_last_24_hours and _exclude_categories ----
    filter_input,   \* the news_items handed to either filter
    recent_items,   \* the result of _filter_last_24_hours
    kept_items,     \* the result of _exclude_categories
    recent_pc,      \* _filter_last_24_hours: "idle", "called" or "returned"
    exclude_pc,     \* _exclude_categories: "idle", "called" or "returned"
    \* ---- NewsCollector.get_global_news .. get_regional_news ----
    news_category,  \* "global", "india", "business" or "regional"
    sources,        \* what feedparser.parse does for each feed URL, in order
    ap_headlines,   \* headlines the Andhra Pradesh page yields
    blr_headlines,  \* headlines the Bangalore page yields
    category_result, \* the list the collector returns
    category_pc,    \* "idle", "called" or "returned"
    \* ---- one page fetched by a collector ----
    http_responses, \* the status the server gives to the 1st, 2nd, .. GET
    http_attempts,  \* GETs issued so far
    fetch_outcome,  \* "none", "page" (the page is parsed) or "unavailable"
    fetch_pc,       \* "idle", "called" or "returned"
    \* ---- StockCollector: scores and recommendation of one quote ----
    hist,           \* what stock.history(period="5d") measures
    change_percent, \* the change scraped from a Moneycontrol row, in tenths
    quote,          \* the scores and the recommendation of the quote
    score_pc,       \* "idle", "called" or "returned"
    \* ---- NewsCollector: the URL of one news item ----
    entry_link,     \* entry.link of a feed entry or the href of a headline
    feed_url,       \* the URL of the feed being parsed
    news_url,       \* the 'url' of the item made
    link_pc,        \* "idle", "called" or "returned"
    \* ---- NewsCollector._categorize_news ----
    headline,       \* the title and the description given
    label,          \* the category returned
    label_pc,       \* "idle", "called" or "returned"
    \* ---- JobsCollector.get_jobs: _filter_by_date_and_package ----
    all_jobs,       \* the jobs found by the searches
    clock,          \* datetime.now(): the day and the time since midnight
    \* ---- StockCollector._enhance_with_yfinance ----
    scraped_stock,  \* the stock_info made from a Moneycontrol row
    yf_lookup,      \* what _get_yfinance_stock_info does for its symbol
    enhanced,       \* stock_info after the call
    enhance_pc      \* "idle", "called" or "returned"

runVars == << pc, current_day, EXCLUDE_DAYS, config, config_issues, data, flags,
              invoked, raisedCalls, returned, html, error, loginFailed,
              reportSends, reportSent, notifyAttempts, notifySent, outcome,
              exitStatus >>

jobVars == << jobs, categorized, jobs_pc >>

stockVars == << screener_rows, mc_rows, mc_price, yfinance, stock_data,
                stocks_pc >>

feedVars == << now, utc_offset, has_parse_date, feed, limit, parsed, feed_pc >>

dedupVars == << news_items, unique_items, dedup_pc >>

filterVars == << filter_input, recent_items, kept_items, recent_pc,
                 exclude_pc >>

categoryVars == << news_category, sources, ap_headlines, blr_headlines,
                   category_result, category_pc >>

fetchVars == << http_responses, http_attempts, fetch_outcome, fetch_pc >>

scoreVars == << hist, change_percent, quote, score_pc >>

linkVars == << entry_link, feed_url, news_url, link_pc >>

labelVars == << headline, label, label_pc >>

getJobsVars == << all_jobs, clock >>

enhanceVars == << scraped_stock, yf_lookup, enhanced, enhance_pc >>

vars == << runVars, jobVars, stockVars, feedVars, dedupVars, filterVars,
           categoryVars, fetchVars, scoreVars, linkVars, labelVars,
           getJobsVars, enhanceVars >>

\* the variables a run of the report does not touch
notRunVars == << jobVars, stockVars, feedVars, dedupVars, filterVars,
                 categoryVars, fetchVars, scoreVars, linkVars, labelVars,
                 getJobsVars, enhanceVars >>

\* the variables _categorize_jobs does not touch
notJobVars == << runVars, stockVars, feedVars, dedupVars, filterVars,
                 categoryVars, fetchVars, scoreVars, linkVars, labelVars,
                 getJobsVars, enhanceVars >>

\* the variables get_stock_data does not touch
notStockVars == << runVars, jobVars, feedVars, dedupVars, filterVars,
                   categoryVars, fetchVars, scoreVars, linkVars, labelVars,
                   getJobsVars, enhanceVars >>

\* the variables _parse_rss_feed does not touch
notFeedVars == << runVars, jobVars, stockVars, dedupVars, filterVars,
                  categoryVars, fetchVars, scoreVars, linkVars, labelVars,
                  getJobsVars, enhanceVars >>

\* the variables _remove_duplicates does not touch
notDedupVars == << runVars, jobVars, stockVars, feedVars, filterVars,
                   categoryVars, fetchVars, scoreVars, linkVars, labelVars,
                   getJobsVars, enhanceVars >>

\* the variables the two filters do not touch
notFilterVars == << runVars, jobVars, stockVars, feedVars, dedupVars,
                    categoryVars, fetchVars, scoreVars, linkVars, labelVars,
                    getJobsVars, enhanceVars >>

\* the variables a news category collector does not touch
notCategoryVars == << runVars, jobVars, stockVars, feedVars, dedupVars,
                      filterVars, fetchVars, scoreVars, linkVars, labelVars,
                      getJobsVars, enhanceVars >>

\* the variables a page fetch does not touch
notFetchVars == << runVars, jobVars, stockVars, feedVars, dedupVars,
                   filterVars, categoryVars, scoreVars, linkVars, labelVars,
                   getJobsVars, enhanceVars >>

\* the variables the scoring of a quote does not touch
notScoreVars == << runVars, jobVars, stockVars, feedVars, dedupVars,
                   filterVars, categoryVars, fetchVars, linkVars, labelVars,
                   getJobsVars, enhanceVars >>

\* the variables the making of an item's URL does not touch
notLinkVars == << runVars, jobVars, stockVars, feedVars, dedupVars,
                  filterVars, categoryVars, fetchVars, scoreVars, labelVars,
                  getJobsVars, enhanceVars >>

\* the variables the labelling of a headline does not touch
notLabelVars == << runVars, jobVars, stockVars, feedVars, dedupVars,
                   filterVars, categoryVars, fetchVars, scoreVars, linkVars,
                   getJobsVars, enhanceVars >>

\* the variables the filtering of the jobs found does not touch
notGetJobsVars == << runVars, jobVars, stockVars, feedVars, dedupVars,
                     filterVars, categoryVars, fetchVars, scoreVars,
                     linkVars, labelVars, enhanceVars >>

\* the variables the enhancing of a scraped stock does not touch
notEnhanceVars == << runVars, jobVars, stockVars, feedVars, dedupVars,
                     filterVars, categoryVars, fetchVars, scoreVars,
                     linkVars, labelVars, getJobsVars >>

----------------------------------------------------------------------------
(* Bounds *)

\* the largest number of words in a job title
MaxTitleWords == 2

\* the largest number of listings a collector returns in the model
MaxItems == 1

----------------------------------------------------------------------------
(* Values held by report_data.  A value is a Python dict or list: its      *)
(* shape, its number of keys (dict) or elements (list), and the number of  *)
(* listings in the part the report looks at.                               *)

Absent == [shape |-> "absent", size |-> 0, items |-> 0]

Dict(size, items) == [shape |-> "dict", size |-> size, items |-> items]

List(size) == [shape |-> "list", size |-> size, items |-> size]

\* bool(x) of a dict or list, and of a missing key read with data.get
Truthy(v) == v.shape # "absent" /\ v.size > 0

Sections == {"news", "stocks", "mutual_funds", "investment_analysis",
             "jobs", "sap", "career"}

\* the collector calls of collect_all_data
Calls == {"get_all_news", "get_stock_data", "get_mutual_funds",
          "get_investment_analysis", "get_jobs", "get_sap_data",
          "get_career_analysis"}

Raised == [shape |-> "raised", size |-> 0, items |-> 0]

\* what each collector can return: NewsCollector.get_all_news returns a dict
\* of four lists, StockCollector.get_stock_data a dict of seven entries, ...
NewsResults == {Dict(4, n) : n \in 0..MaxItems}
StockResults == {Dict(7, n) : n \in 0..MaxItems}
FundResults == {Dict(5, n) : n \in 0..MaxItems}
AnalysisResults == {Dict(6, 6)}
JobsResults == {Dict(2, n) : n \in 0..MaxItems}
SapResults == {Dict(6, 6)}
CareerResults == {Dict(6, 6)}

\* the except-branch defaults of collect_all_data
NewsDefault == Dict(4, 0)
StocksDefault == Dict(4, 0)
FundsDefault == Dict(4, 0)
AnalysisDefault == Dict(0, 0)
JobsDefault == List(0)
SapDefault == Dict(0, 0)
CareerDefault == Dict(0, 0)

----------------------------------------------------------------------------
(* Configuration *)

\* EMAIL_FROM: unset, a Gmail address, another address.
\* EMAIL_PASSWORD: unset, 16 characters after removing spaces, another length.
\* EMAIL_TO: unset or set.
Configs == [from : {"unset", "gmail", "other"},
            password : {"unset", "len16", "short"},
            to : {"unset", "set"}]

ExcludeDayChoices == {{}, {6}}

\* a should_skip_today that excludes no day
should_skip_today_never(day, exclude) == FALSE

\* config.py: should_skip_today
should_skip_today(day, exclude) == day \in exclude

\* a mutant of validate_configuration: the EMAIL_TO check is missing
validate_configuration_no_to(c) ==
    (IF c.from = "unset" THEN {"EMAIL_FROM not set"} ELSE {})
    \cup (IF c.password = "unset" THEN {"EMAIL_PASSWORD not set"} ELSE {})
    \cup (IF c.from # "unset" /\ c.from # "gmail"
          THEN {"EMAIL_FROM must be a Gmail address"} ELSE {})
    \cup (IF c.password # "unset" /\ c.password # "len16"
          THEN {"EMAIL_PASSWORD should be 16 characters"} ELSE {})

\* EmailSender.validate_configuration
validate_configuration(c) ==
    (IF c.from = "unset" THEN {"EMAIL_FROM not set"} ELSE {})
    \cup (IF c.password = "unset" THEN {"EMAIL_PASSWORD not set"} ELSE {})
    \cup (IF c.to = "unset" THEN {"EMAIL_TO not set"} ELSE {})
    \cup (IF c.from # "unset" /\ c.from # "gmail"
          THEN {"EMAIL_FROM must be a Gmail address"} ELSE {})
    \cup (IF c.password # "unset" /\ c.password # "len16"
          THEN {"EMAIL_PASSWORD should be 16 characters"} ELSE {})

----------------------------------------------------------------------------
(* SMTP *)

\* what the SMTP conversation of one send_email call does
SmtpOutcomes == {"connect_fails", "starttls_fails", "login_fails",
                 "sendmail_fails", "ok"}

\* a mutant of send_email: an SMTP failure is logged and False is not raised
send_email_swallow(c, smtp) ==
    IF c.from = "unset" \/ c.password = "unset" \/ c.to = "unset"
    THEN "raise ValueError"
    ELSE "return True"

\* EmailSender.send_email: the result of one call.  Every exception is
\* logged and re-raised; the only value ever returned is True.
send_email(c, smtp) ==
    IF c.from = "unset" \/ c.password = "unset" \/ c.to = "unset"
    THEN "raise ValueError"
    ELSE IF smtp = "connect_fails" THEN "raise SMTPException"
    ELSE IF smtp = "starttls_fails" THEN "raise SMTPException"
    ELSE IF smtp = "login_fails" THEN "raise SMTPAuthenticationError"
    ELSE IF smtp = "sendmail_fails" THEN "raise SMTPRecipientsRefused"
    ELSE "return True"

----------------------------------------------------------------------------
(* collect_all_data *)

\* a mutant of the try/except around a collector: the exception escapes
TryCollectNoCatch(res, default) ==
    IF res = Raised THEN [escaped |-> TRUE, value |-> Absent]
    ELSE [escaped |-> FALSE, value |-> res]

\* try: data[k] = collector() / except Exception: data[k] = default
TryCollect(res, default) ==
    IF res = Raised THEN [escaped |-> FALSE, value |-> default]
    ELSE [escaped |-> FALSE, value |-> res]

\* a schedule that collects market data on Sunday too
MarketDay_every_day(day) == TRUE

\* the weekday schedule of collect_all_data
MarketDay(day) == day # 6
SapDay(day) == day = 5
CareerDay(day) == day \in {0, 5}

\* _get_report_type
ReportTypes(day) ==
    (IF day # 6 THEN {"Markets"} ELSE {})
    \cup (IF day = 5 THEN {"SAP-Weekly"} ELSE {})
    \cup (IF day \in {0, 5} THEN {"Career-Analysis"} ELSE {})
    \cup {"Daily"}

----------------------------------------------------------------------------
(* Strings.  A Python str is a TLA+ string; Len, SubSeq and \o act on it   *)
(* as on a sequence of characters.                                         *)

\* kw in s
Contains(kw, s) ==
    \E i \in 1..(Len(s) - Len(kw) + 1) : SubSeq(s, i, i + Len(kw) - 1) = kw

\* any(term in s for term in terms)
ContainsAny(terms, s) == \E t \in terms : Contains(t, s)

UpperCase == "ABCDEFGHIJKLMNOPQRSTUVWXYZ"
LowerCase == "abcdefghijklmnopqrstuvwxyz"

LowerChar(c) ==
    IF \E i \in 1..Len(UpperCase) : SubSeq(UpperCase, i, i) = c
    THEN LET i == CHOOSE k \in 1..Len(UpperCase) : SubSeq(UpperCase, k, k) = c
         IN SubSeq(LowerCase, i, i)
    ELSE c

\* str.lower
RECURSIVE Lower(_)
Lower(s) ==
    IF s = "" THEN ""
    ELSE LowerChar(SubSeq(s, 1, 1)) \o Lower(SubSeq(s, 2, Len(s)))

Digits == "0123456789"

IsDigit(c) == \E i \in 1..Len(Digits) : SubSeq(Digits, i, i) = c

DigitValue(c) == (CHOOSE i \in 1..Len(Digits) : SubSeq(Digits, i, i) = c) - 1

\* int(s) of a run of digits
RECURSIVE ToInt(_)
ToInt(s) ==
    IF s = "" THEN 0
    ELSE ToInt(SubSeq(s, 1, Len(s) - 1)) * 10
         + DigitValue(SubSeq(s, Len(s), Len(s)))

\* re.findall(r'\d+', s)[0]: the first maximal run of digits, "" if none
FirstNumber(s) ==
    LET starts == {i \in 1..Len(s) : IsDigit(SubSeq(s, i, i))} IN
    IF starts = {} THEN ""
    ELSE LET a == CHOOSE i \in starts : \A j \in starts : i <= j
             ends == {j \in a..Len(s) :
                         /\ \A k \in a..j : IsDigit(SubSeq(s, k, k))
                         /\ (j = Len(s) \/ ~ IsDigit(SubSeq(s, j + 1, j + 1)))}
             b == CHOOSE j \in ends : TRUE
         IN SubSeq(s, a, b)

----------------------------------------------------------------------------
(* JobsCollector._categorize_jobs *)

\* content = (title + ' ' + description + ' ' + requirements).lower()
JobContent(job) ==
    Lower(job.title \o " " \o job.description \o " " \o job.requirements)

\* numbers and int(numbers[0]) >= threshold
PackageAtLeast(job, threshold) ==
    FirstNumber(job.package) # "" /\ ToInt(FirstNumber(job.package)) >= threshold

\* 1 for each keyword of the list found in the content
Hits(keywords, content) == Cardinality({k \in keywords : Contains(k, content)})

\* a mutant of _calculate_sap_score: the senior-role bonus is subtracted
_calculate_sap_score_senior_penalty(job, has_modern_tech) ==
    LET content == JobContent(job) IN
    2 * Hits({"sap", "hana", "s/4hana", "finance", "fico", "controlling",
              "cloud"}, content)
    + (IF has_modern_tech THEN 3 ELSE 0)
    + (IF Contains("ai", content) THEN 4 ELSE 0)
    - (IF ContainsAny({"architect", "lead", "manager", "director"},
                      Lower(job.title)) THEN 3 ELSE 0)
    + (IF PackageAtLeast(job, 45) THEN 2 ELSE 0)

\* _calculate_sap_score
_calculate_sap_score(job, has_modern_tech) ==
    LET content == JobContent(job) IN
    2 * Hits({"sap", "hana", "s/4hana", "finance", "fico", "controlling",
              "cloud"}, content)
    + (IF has_modern_tech THEN 3 ELSE 0)
    + (IF Contains("ai", content) THEN 4 ELSE 0)
    + (IF ContainsAny({"architect", "lead", "manager", "director"},
                      Lower(job.title)) THEN 3 ELSE 0)
    + (IF PackageAtLeast(job, 45) THEN 2 ELSE 0)

\* _calculate_ai_transition_score
_calculate_ai_transition_score(job) ==
    LET content == JobContent(job) IN
    3 * Hits({"ai", "ml", "machine learning", "data science",
              "artificial intelligence", "python"}, content)
    + 2 * Hits({"sap", "erp", "enterprise", "business systems"}, content)
    + 4 * Hits({"background preferred", "experience plus", "domain knowledge",
                "business context"}, content)
    + (IF PackageAtLeast(job, 50) THEN 3 ELSE 0)

\* the body of the loop of _categorize_jobs: the category a job is put in
\* ("none" when it is put in neither list) and the score it is given
CategorizeOne(job) ==
    LET content == JobContent(job)
        sap_background == ContainsAny({"sap", "hana", "fico", "erp"}, content)
        has_ai == ContainsAny({"ai", "ml", "machine learning", "data science",
                               "artificial intelligence", "python",
                               "tensorflow"}, content)
        has_sap == ContainsAny({"sap", "hana", "cloud", "finance",
                                "controlling"}, content)
        has_modern == ContainsAny({"ai", "cloud", "automation", "analytics"},
                                  content)
    IN  IF has_ai /\ sap_background
        THEN [category |-> "AI Transition",
              relevance_score |-> _calculate_ai_transition_score(job)]
        ELSE IF has_ai /\ Contains("sap", content)
        THEN [category |-> "AI Transition",
              relevance_score |-> _calculate_ai_transition_score(job)]
        ELSE IF has_sap
        THEN [category |-> "SAP",
              relevance_score |-> _calculate_sap_score(job, has_modern)]
        ELSE [category |-> "none", relevance_score |-> -1]

\* the job with the two keys _categorize_jobs sets on it
Scored(job) ==
    LET c == CategorizeOne(job) IN
    [id |-> job.id, title |-> job.title, description |-> job.description,
     requirements |-> job.requirements, package |-> job.package,
     category |-> c.category, relevance_score |-> c.relevance_score]

\* the lists left in the order of the loop
SortByScore_unsorted(list) == list

\* list.sort(key=relevance_score, reverse=True): stable, highest first
RECURSIVE SortByScore(_)
SortByScore(list) ==
    IF list = <<>> THEN <<>>
    ELSE LET best == CHOOSE i \in 1..Len(list) :
                        /\ \A j \in 1..Len(list) :
                              list[j].relevance_score <= list[i].relevance_score
                        /\ \A j \in 1..(i - 1) :
                              list[j].relevance_score < list[i].relevance_score
         IN << list[best] >> \o
            SortByScore(SubSeq(list, 1, best - 1) \o
                        SubSeq(list, best + 1, Len(list)))

\* _categorize_jobs
_categorize_jobs(list) ==
    LET scored == [i \in 1..Len(list) |-> Scored(list[i])] IN
    [sap_category |->
        SortByScore(SelectSeq(scored, LAMBDA j : j.category = "SAP")),
     ai_transition_category |->
        SortByScore(SelectSeq(scored, LAMBDA j : j.category = "AI Transition"))]

NotCategorized == [sap_category |-> <<>>, ai_transition_category |-> <<>>]

JobsIdle ==
    /\ jobs = <<>>
    /\ categorized = NotCategorized
    /\ jobs_pc = "idle"

StockCategories == {"large", "mid", "small"}

NoStockData == [large_cap |-> <<>>, mid_cap |-> <<>>, small_cap |-> <<>>]

StocksIdle ==
    /\ screener_rows = [c \in StockCategories |-> 0]
    /\ mc_rows = [c \in StockCategories |-> 0]
    /\ mc_price = 0
    /\ yfinance = [up |-> FALSE, unlisted |-> {}]
    /\ stock_data = NoStockData
    /\ stocks_pc = "idle"

NotParsed == [raised |-> FALSE, items |-> <<>>]

FeedIdle ==
    /\ now = 0
    /\ utc_offset = 0
    /\ has_parse_date = FALSE
    /\ feed = [raises |-> FALSE, bozo |-> FALSE, entries |-> <<>>]
    /\ limit = 0
    /\ parsed = NotParsed
    /\ feed_pc = "idle"

DedupIdle ==
    /\ news_items = <<>>
    /\ unique_items = <<>>
    /\ dedup_pc = "idle"

FiltersIdle ==
    /\ filter_input = <<>>
    /\ recent_items = <<>>
    /\ kept_items = <<>>
    /\ recent_pc = "idle"
    /\ exclude_pc = "idle"

CategoryIdle ==
    /\ news_category = "global"
    /\ sources = <<>>
    /\ ap_headlines = 0
    /\ blr_headlines = 0
    /\ category_result = <<>>
    /\ category_pc = "idle"

FetchIdle ==
    /\ http_responses = <<>>
    /\ http_attempts = 0
    /\ fetch_outcome = "none"
    /\ fetch_pc = "idle"

ScoreIdle ==
    /\ hist = <<>>
    /\ change_percent = 0
    /\ quote = <<>>
    /\ score_pc = "idle"

LinkIdle ==
    /\ entry_link = [present |-> FALSE, value |-> ""]
    /\ feed_url = ""
    /\ news_url = ""
    /\ link_pc = "idle"

LabelIdle ==
    /\ headline = <<>>
    /\ label = ""
    /\ label_pc = "idle"

GetJobsIdle ==
    /\ all_jobs = <<>>
    /\ clock = [day |-> 0, time |-> 0]

EnhanceIdle ==
    /\ scraped_stock = <<>>
    /\ yf_lookup = <<>>
    /\ enhanced = <<>>
    /\ enhance_pc = "idle"

----------------------------------------------------------------------------
(* The run *)

\* no run of the report is in progress
RunIdle ==
    /\ pc = "idle"
    /\ current_day = 0
    /\ EXCLUDE_DAYS = {}
    /\ config = [from |-> "gmail", password |-> "len16", to |-> "set"]
    /\ config_issues = {"unvalidated"}
    /\ data = [s \in Sections |-> Absent]
    /\ flags = [f \in {"has_market_data", "has_jobs", "has_sap_data",
                       "has_career_data"} |-> FALSE]
    /\ invoked = {}
    /\ raisedCalls = {}
    /\ returned = [c \in Calls |-> Absent]
    /\ html = "none"
    /\ error = "none"
    /\ loginFailed = FALSE
    /\ reportSends = 0
    /\ reportSent = 0
    /\ notifyAttempts = 0
    /\ notifySent = 0
    /\ outcome = "running"
    /\ exitStatus = -1

Init ==
    /\ EnhanceIdle
    /\ GetJobsIdle
    /\ LabelIdle
    /\ LinkIdle
    /\ ScoreIdle
    /\ FetchIdle
    /\ CategoryIdle
    /\ FiltersIdle
    /\ pc = "start"
    /\ current_day \in 0..6
    /\ EXCLUDE_DAYS \in ExcludeDayChoices
    /\ config \in Configs
    /\ config_issues = {"unvalidated"}
    /\ data = [s \in Sections |-> Absent]
    /\ flags = [f \in {"has_market_data", "has_jobs", "has_sap_data",
                       "has_career_data"} |-> FALSE]
    /\ invoked = {}
    /\ raisedCalls = {}
    /\ returned = [c \in Calls |-> Absent]
    /\ html = "none"
    /\ error = "none"
    /\ loginFailed = FALSE
    /\ reportSends = 0
    /\ reportSent = 0
    /\ notifyAttempts = 0
    /\ notifySent = 0
    /\ outcome = "running"
    /\ exitStatus = -1
    /\ JobsIdle
    /\ StocksIdle
    /\ FeedIdle
    /\ DedupIdle

\* the exception leaves the try block of generate_report
Raise(e) ==
    /\ pc' = "except"
    /\ error' = e

\* generate_report: should_skip_today() is true, return
SkipToday ==
    /\ pc = "start"
    /\ should_skip_today(current_day, EXCLUDE_DAYS)
    /\ pc' = "returned"
    /\ outcome' = "skipped"
    /\ UNCHANGED notRunVars
    /\ UNCHANGED << current_day, EXCLUDE_DAYS, config, config_issues, data,
                    flags, invoked, raisedCalls, returned, html, error,
                    loginFailed, reportSends, reportSent, notifyAttempts,
                    notifySent, exitStatus >>

\* generate_report: validate the email configuration, raise ValueError on
\* any issue
ValidateConfiguration ==
    /\ pc = "start"
    /\ ~ should_skip_today(current_day, EXCLUDE_DAYS)
    /\ config_issues' = validate_configuration(config)
    /\ IF config_issues' # {}
       THEN Raise("ValueError: Email configuration is invalid")
       ELSE pc' = "collect_news" /\ error' = error
    /\ UNCHANGED notRunVars
    /\ UNCHANGED << current_day, EXCLUDE_DAYS, config, data, flags, invoked,
                    raisedCalls, returned, html, loginFailed, reportSends,
                    reportSent, notifyAttempts, notifySent, outcome,
                    exitStatus >>


\* collect_all_data, news: always collected
CollectNews ==
    /\ pc = "collect_news"
    /\ \E res \in NewsResults \cup {Raised} :
          LET r == TryCollect(res, NewsDefault) IN
          /\ invoked' = invoked \cup {"get_all_news"}
          /\ raisedCalls' = IF res = Raised
                            THEN raisedCalls \cup {"get_all_news"}
                            ELSE raisedCalls
          /\ returned' = [returned EXCEPT !["get_all_news"] = res]
          /\ IF r.escaped
             THEN Raise("collector exception") /\ data' = data
             ELSE /\ data' = [data EXCEPT !["news"] = r.value]
                  /\ pc' = "collect_stocks"
                  /\ error' = error
    /\ UNCHANGED notRunVars
    /\ UNCHANGED << current_day, EXCLUDE_DAYS, config, config_issues, flags,
                    html, loginFailed, reportSends, reportSent,
                    notifyAttempts, notifySent, outcome, exitStatus >>

\* the three calls of the market block, made in order inside one try: a call
\* is made only if the calls before it returned
MarketCalls(s, m) ==
    IF s = Raised THEN {"get_stock_data"}
    ELSE IF m = Raised THEN {"get_stock_data", "get_mutual_funds"}
    ELSE {"get_stock_data", "get_mutual_funds", "get_investment_analysis"}

MarketRaised(s, m, a) ==
    IF s = Raised THEN {"get_stock_data"}
    ELSE IF m = Raised THEN {"get_mutual_funds"}
    ELSE IF a = Raised THEN {"get_investment_analysis"}
    ELSE {}

MarketDefault == [stocks |-> StocksDefault, mutual_funds |-> FundsDefault,
                  investment_analysis |-> AnalysisDefault]

\* collect_all_data, stocks, mutual funds and investment analysis: every day
\* but Sunday, one try block around the three calls
CollectStocks ==
    /\ pc = "collect_stocks"
    /\ IF MarketDay(current_day)
       THEN \E s \in StockResults \cup {Raised},
               m \in FundResults \cup {Raised},
               a \in AnalysisResults \cup {Raised} :
               LET made == MarketCalls(s, m)
                   bad == MarketRaised(s, m, a)
                   res == IF bad # {} THEN Raised
                          ELSE [stocks |-> s, mutual_funds |-> m,
                                investment_analysis |-> a]
                   r == TryCollect(res, MarketDefault)
               IN
               /\ invoked' = invoked \cup made
               /\ raisedCalls' = raisedCalls \cup bad
               /\ returned' = [c \in Calls |->
                     IF c \notin made THEN returned[c]
                     ELSE IF c = "get_stock_data" THEN s
                     ELSE IF c = "get_mutual_funds" THEN m
                     ELSE a]
               /\ IF r.escaped
                  THEN Raise("collector exception") /\ data' = data
                  ELSE /\ data' = [data EXCEPT
                              !["stocks"] = r.value.stocks,
                              !["mutual_funds"] = r.value.mutual_funds,
                              !["investment_analysis"] =
                                  r.value.investment_analysis]
                       /\ pc' = "collect_jobs"
                       /\ error' = error
       ELSE /\ pc' = "collect_jobs"
            /\ UNCHANGED << invoked, raisedCalls, returned, data, error >>
    /\ UNCHANGED notRunVars
    /\ UNCHANGED << current_day, EXCLUDE_DAYS, config, config_issues, flags,
                    html, loginFailed, reportSends, reportSent,
                    notifyAttempts, notifySent, outcome, exitStatus >>

\* collect_all_data, jobs: always collected
CollectJobs ==
    /\ pc = "collect_jobs"
    /\ \E res \in JobsResults \cup {Raised} :
          LET r == TryCollect(res, JobsDefault) IN
          /\ invoked' = invoked \cup {"get_jobs"}
          /\ raisedCalls' = IF res = Raised
                            THEN raisedCalls \cup {"get_jobs"}
                            ELSE raisedCalls
          /\ returned' = [returned EXCEPT !["get_jobs"] = res]
          /\ IF r.escaped
             THEN Raise("collector exception") /\ data' = data
             ELSE /\ data' = [data EXCEPT !["jobs"] = r.value]
                  /\ pc' = "collect_sap"
                  /\ error' = error
    /\ UNCHANGED notRunVars
    /\ UNCHANGED << current_day, EXCLUDE_DAYS, config, config_issues, flags,
                    html, loginFailed, reportSends, reportSent,
                    notifyAttempts, notifySent, outcome, exitStatus >>

\* collect_all_data, SAP insights: Saturday only
CollectSap ==
    /\ pc = "collect_sap"
    /\ IF SapDay(current_day)
       THEN \E res \in SapResults \cup {Raised} :
               LET r == TryCollect(res, SapDefault) IN
               /\ invoked' = invoked \cup {"get_sap_data"}
               /\ raisedCalls' = IF res = Raised
                                 THEN raisedCalls \cup {"get_sap_data"}
                                 ELSE raisedCalls
               /\ returned' = [returned EXCEPT !["get_sap_data"] = res]
               /\ IF r.escaped
                  THEN Raise("collector exception") /\ data' = data
                  ELSE /\ data' = [data EXCEPT !["sap"] = r.value]
                       /\ pc' = "collect_career"
                       /\ error' = error
       ELSE /\ pc' = "collect_career"
            /\ UNCHANGED << invoked, raisedCalls, returned, data, error >>
    /\ UNCHANGED notRunVars
    /\ UNCHANGED << current_day, EXCLUDE_DAYS, config, config_issues, flags,
                    html, loginFailed, reportSends, reportSent,
                    notifyAttempts, notifySent, outcome, exitStatus >>

\* collect_all_data, career analysis: Monday and Saturday; then return data
CollectCareer ==
    /\ pc = "collect_career"
    /\ IF CareerDay(current_day)
       THEN \E res \in CareerResults \cup {Raised} :
               LET r == TryCollect(res, CareerDefault) IN
               /\ invoked' = invoked \cup {"get_career_analysis"}
               /\ raisedCalls' = IF res = Raised
                                 THEN raisedCalls \cup {"get_career_analysis"}
                                 ELSE raisedCalls
               /\ returned' = [returned EXCEPT !["get_career_analysis"] = res]
               /\ IF r.escaped
                  THEN Raise("collector exception") /\ data' = data
                  ELSE /\ data' = [data EXCEPT !["career"] = r.value]
                       /\ pc' = "render"
                       /\ error' = error
       ELSE /\ pc' = "render"
            /\ UNCHANGED << invoked, raisedCalls, returned, data, error >>
    /\ UNCHANGED notRunVars
    /\ UNCHANGED << current_day, EXCLUDE_DAYS, config, config_issues, flags,
                    html, loginFailed, reportSends, reportSent,
                    notifyAttempts, notifySent, outcome, exitStatus >>

----------------------------------------------------------------------------
(* generate_html_report *)

\* what importing jinja2, loading the template and rendering it can do
TemplateOutcomes == {"load_fails", "render_fails", "ok"}

\* the presence flags derived before rendering
PresenceFlags(d) ==
    [has_market_data |-> Truthy(d["stocks"]) /\ d["stocks"].items > 0,
     has_jobs |-> Truthy(d["jobs"]),
     has_sap_data |-> Truthy(d["sap"]),
     has_career_data |-> Truthy(d["career"])]

\* _generate_fallback_html: data.get('jobs', [])[:5] slices the value of
\* data['jobs']; slicing a dict raises (TypeError: unhashable type 'slice',
\* KeyError from Python 3.12 on), slicing a list or the [] default does not
_generate_fallback_html(d) ==
    IF d["jobs"].shape = "dict" THEN "raise TypeError" ELSE "fallback"

\* generate_html_report: render the template; on any exception return the
\* fallback HTML, whose own exception is not caught
GenerateHtmlReport ==
    /\ pc = "render"
    /\ \E t \in TemplateOutcomes :
          /\ flags' = IF t = "load_fails" THEN flags ELSE PresenceFlags(data)
          /\ IF t = "ok"
             THEN html' = "template" /\ pc' = "send" /\ error' = error
             ELSE IF _generate_fallback_html(data) = "fallback"
             THEN html' = "fallback" /\ pc' = "send" /\ error' = error
             ELSE html' = html /\ Raise(_generate_fallback_html(data))
    /\ UNCHANGED notRunVars
    /\ UNCHANGED << current_day, EXCLUDE_DAYS, config, config_issues, data,
                    invoked, raisedCalls, returned, loginFailed, reportSends,
                    reportSent, notifyAttempts, notifySent, outcome,
                    exitStatus >>

----------------------------------------------------------------------------
(* Delivery *)

\* server.sendmail was reached and accepted the message
Delivered(c, smtp) == send_email(c, smtp) = "return True" /\ smtp = "ok"

\* generate_report: success = send_email(subject, html_content); a false
\* result raises Exception("Email sending failed")
SendReport ==
    /\ pc = "send"
    /\ \E smtp \in SmtpOutcomes :
          LET r == send_email(config, smtp) IN
          /\ reportSends' = reportSends + 1
          /\ reportSent' = reportSent + (IF Delivered(config, smtp) THEN 1 ELSE 0)
          /\ loginFailed' = (smtp = "login_fails")
          /\ IF r = "return True"
             THEN pc' = "returned" /\ outcome' = "sent" /\ error' = error
             ELSE IF r = "return False"
             THEN Raise("Exception: Email sending failed") /\ outcome' = outcome
             ELSE Raise(r) /\ outcome' = outcome
    /\ UNCHANGED notRunVars
    /\ UNCHANGED << current_day, EXCLUDE_DAYS, config, config_issues, data,
                    flags, invoked, raisedCalls, returned, html,
                    notifyAttempts, notifySent, exitStatus >>

\* generate_report's except branch: send_error_notification(e), then raise.
\* ReportGenerator.send_error_notification calls
\* EmailSender.send_error_notification, which calls send_email once; both
\* catch and log whatever that raises.
SendErrorNotification ==
    /\ pc = "except"
    /\ \E smtp \in SmtpOutcomes :
          /\ notifyAttempts' = notifyAttempts + 1
          /\ notifySent' = notifySent + (IF Delivered(config, smtp) THEN 1 ELSE 0)
    /\ pc' = "raised"
    /\ outcome' = "failed"
    /\ UNCHANGED notRunVars
    /\ UNCHANGED << current_day, EXCLUDE_DAYS, config, config_issues, data,
                    flags, invoked, raisedCalls, returned, html, error,
                    loginFailed, reportSends, reportSent, exitStatus >>

\* a main that leaves only when generate_report returned: after an
\* exception it stays where it is
MainExit_returned_only ==
    /\ pc = "returned"
    /\ exitStatus' = 0
    /\ pc' = "exit"
    /\ UNCHANGED notRunVars
    /\ UNCHANGED << current_day, EXCLUDE_DAYS, config, config_issues, data,
                    flags, invoked, raisedCalls, returned, html, error,
                    loginFailed, reportSends, reportSent, notifyAttempts,
                    notifySent, outcome >>

\* a main that swallows the exception of generate_report and exits 0
MainExit_exit_zero ==
    /\ pc \in {"returned", "raised"}
    /\ exitStatus' = 0
    /\ pc' = "exit"
    /\ UNCHANGED notRunVars
    /\ UNCHANGED << current_day, EXCLUDE_DAYS, config, config_issues, data,
                    flags, invoked, raisedCalls, returned, html, error,
                    loginFailed, reportSends, reportSent, notifyAttempts,
                    notifySent, outcome >>

\* main: exit status 0 when generate_report returned, sys.exit(1) when it raised
MainExit ==
    /\ pc \in {"returned", "raised"}
    /\ exitStatus' = IF pc = "returned" THEN 0 ELSE 1
    /\ pc' = "exit"
    /\ UNCHANGED notRunVars
    /\ UNCHANGED << current_day, EXCLUDE_DAYS, config, config_issues, data,
                    flags, invoked, raisedCalls, returned, html, error,
                    loginFailed, reportSends, reportSent, notifyAttempts,
                    notifySent, outcome >>

Next ==
    \/ SkipToday
    \/ ValidateConfiguration
    \/ CollectNews
    \/ CollectStocks
    \/ CollectJobs
    \/ CollectSap
    \/ CollectCareer
    \/ GenerateHtmlReport
    \/ SendReport
    \/ SendErrorNotification
    \/ MainExit

Spec == Init /\ [][Next]_vars


----------------------------------------------------------------------------
(* Properties of the run *)

RunOver == pc \in {"raised", "exit"}

ConfigError == "ValueError: Email configuration is invalid"

DeliveryErrors == {"raise SMTPException", "raise SMTPAuthenticationError",
                   "raise SMTPRecipientsRefused",
                   "Exception: Email sending failed"}

\* C1: when server.login fails while the report is being delivered, the
\* report is not sent, the run ends as failed (main exits nonzero), and the
\* error-notification send is attempted exactly once: not before the failure
\* is handled, once when the run is over, never more.
C1_LoginFailureNotifiedOnce ==
    loginFailed =>
        /\ reportSent = 0
        /\ outcome # "sent"
        /\ pc \in {"except", "raised", "exit"}
        /\ notifyAttempts = (IF RunOver THEN 1 ELSE 0)
        /\ RunOver => outcome = "failed"
        /\ pc = "exit" => exitStatus = 1

C1_Witness ==
    loginFailed /\ pc = "exit" /\ notifyAttempts = 1 /\ outcome = "failed"

\* C2 (as claimed): a run fails only on a configuration or a delivery
\* failure; after collection a document is always handed to send_email.
C2_OnlyConfigOrDeliveryFails ==
    (pc \in {"except", "raised", "exit"} /\ error # "none") =>
        \/ error = ConfigError
        \/ error \in DeliveryErrors /\ reportSends = 1 /\ html # "none"

\* collect_all_data has returned
CollectionDone ==
    config_issues = {} /\ pc \notin {"start", "collect_news", "collect_stocks",
                                     "collect_jobs", "collect_sap",
                                     "collect_career"}

\* the collectors collect_all_data calls first in each block scheduled on a day
Scheduled(day) ==
    {"get_all_news", "get_jobs"}
    \cup (IF day # 6 THEN {"get_stock_data"} ELSE {})
    \cup (IF day = 5 THEN {"get_sap_data"} ELSE {})
    \cup (IF day \in {0, 5} THEN {"get_career_analysis"} ELSE {})

MarketGroup == {"get_stock_data", "get_mutual_funds", "get_investment_analysis"}

\* C3: collect_all_data never raises because a collector raised; whatever
\* subset of collectors raises, a failing block's sections hold their empty
\* defaults, and every other scheduled collector was invoked and its result
\* is stored unchanged.
C3_CollectorFailuresIsolated ==
    /\ error # "collector exception"
    /\ CollectionDone =>
        /\ Scheduled(current_day) \subseteq invoked
        /\ data["news"] = IF "get_all_news" \in raisedCalls
                          THEN NewsDefault ELSE returned["get_all_news"]
        /\ data["jobs"] = IF "get_jobs" \in raisedCalls
                          THEN JobsDefault ELSE returned["get_jobs"]
        /\ current_day # 6 =>
             IF raisedCalls \cap MarketGroup # {}
             THEN /\ data["stocks"] = StocksDefault
                  /\ data["mutual_funds"] = FundsDefault
                  /\ data["investment_analysis"] = AnalysisDefault
             ELSE /\ MarketGroup \subseteq invoked
                  /\ data["stocks"] = returned["get_stock_data"]
                  /\ data["mutual_funds"] = returned["get_mutual_funds"]
                  /\ data["investment_analysis"] =
                         returned["get_investment_analysis"]
        /\ current_day = 5 =>
             data["sap"] = IF "get_sap_data" \in raisedCalls
                           THEN SapDefault ELSE returned["get_sap_data"]
        /\ current_day \in {0, 5} =>
             data["career"] = IF "get_career_analysis" \in raisedCalls
                              THEN CareerDefault
                              ELSE returned["get_career_analysis"]

\* news and SAP raised on a Saturday; jobs, the market block and career were
\* still called and their results are in the report data
C3_Witness ==
    /\ CollectionDone
    /\ current_day = 5
    /\ raisedCalls = {"get_all_news", "get_sap_data"}
    /\ invoked = Calls
    /\ data["news"] = NewsDefault
    /\ data["sap"] = SapDefault
    /\ data["jobs"] = Dict(2, 1)
    /\ data["stocks"] = Dict(7, 1)
    /\ data["career"] = Dict(6, 6)

MissingCredential(c) ==
    c.from = "unset" \/ c.password = "unset" \/ c.to = "unset"

\* C4: once validation has run on a configuration with an issue (a missing
\* EMAIL_FROM, EMAIL_PASSWORD or EMAIL_TO, or any other issue it reports),
\* the run is failing or failed, no collector has been or is ever invoked
\* and no report email is sent.
C4_ConfigIssueAbortsBeforeCollection ==
    (/\ config_issues # {"unvalidated"}
     /\ (config_issues # {} \/ MissingCredential(config))) =>
        /\ pc \in {"except", "raised", "exit"}
        /\ error = ConfigError
        /\ invoked = {}
        /\ data = [s \in Sections |-> Absent]
        /\ reportSends = 0
        /\ reportSent = 0
        /\ RunOver => outcome = "failed"
        /\ pc = "exit" => exitStatus = 1

C4_Witness ==
    /\ pc = "exit"
    /\ config.to = "unset"
    /\ "EMAIL_TO not set" \in config_issues
    /\ outcome = "failed"
    /\ invoked = {}


----------------------------------------------------------------------------
(* SpecJobs: _categorize_jobs on a job and on the same job with a keyword  *)
(* added to its title                                                      *)

TitleWords == {"SAP", "Architect", "Machine", "Python"}

RECURSIVE TitlesOf(_)
TitlesOf(n) ==
    IF n = 1 THEN TitleWords
    ELSE TitlesOf(n - 1)
         \cup {t \o " " \o w : t \in TitlesOf(n - 1), w \in TitleWords}

JobTitles == TitlesOf(MaxTitleWords)

JobDescriptions == {"", "Learning and analytics platform"}

JobRequirements == {"", "SAP, Finance, Cloud"}

JobPackages == {"40-45 LPA", "50+ LPA", "Not disclosed"}

\* the keywords the scoring functions weigh highest
HighPriorityKeywords == {"AI", "Python", "SAP", "Architect"}

\* the title with the keyword added as a new first or a new last word
AddToTitle(title, kw, where) ==
    IF where = "front" THEN kw \o " " \o title ELSE title \o " " \o kw

JobsInit ==
    /\ EnhanceIdle
    /\ GetJobsIdle
    /\ LabelIdle
    /\ LinkIdle
    /\ ScoreIdle
    /\ FetchIdle
    /\ CategoryIdle
    /\ FiltersIdle
    /\ RunIdle
    /\ StocksIdle
    /\ FeedIdle
    /\ DedupIdle
    /\ \E t \in JobTitles, d \in JobDescriptions, r \in JobRequirements,
          p \in JobPackages, kw \in HighPriorityKeywords,
          where \in {"front", "back"} :
          jobs = << [id |-> 1, title |-> t, description |-> d,
                     requirements |-> r, package |-> p],
                    [id |-> 2, title |-> AddToTitle(t, kw, where),
                     description |-> d, requirements |-> r, package |-> p] >>
    /\ categorized = NotCategorized
    /\ jobs_pc = "collected"

\* get_jobs: categorized_jobs = self._categorize_jobs(recent_jobs)
CategorizeJobs ==
    /\ jobs_pc = "collected"
    /\ categorized' = _categorize_jobs(jobs)
    /\ jobs_pc' = "categorized"
    /\ UNCHANGED << jobs, notJobVars >>

JobsNext == CategorizeJobs

SpecJobs == JobsInit /\ [][JobsNext]_vars

\* the entries of the result for the job with this id (none, or one)
EntriesOf(id) ==
    {categorized.sap_category[i] : i \in
        {k \in 1..Len(categorized.sap_category) :
            categorized.sap_category[k].id = id}}
    \cup {categorized.ai_transition_category[i] : i \in
        {k \in 1..Len(categorized.ai_transition_category) :
            categorized.ai_transition_category[k].id = id}}

\* C6 (as claimed): adding a high-priority keyword to the title never
\* decreases the relevance_score _categorize_jobs assigns, whichever
\* category the job is in before and after.
C6_KeywordNeverLowersScore ==
    jobs_pc = "categorized" =>
        \A b \in EntriesOf(1), a \in EntriesOf(2) :
            a.relevance_score >= b.relevance_score

\* the keyword was put in front of the title, so no text of the job is split
KeywordPrepended ==
    \E kw \in HighPriorityKeywords :
        jobs[2].title = kw \o " " \o jobs[1].title

\* C6 (amended): adding a high-priority keyword as a new first word of the
\* title never decreases the relevance_score, provided _categorize_jobs puts
\* the job in the same category before and after the addition.
C6_KeywordNeverLowersScoreInCategory ==
    (jobs_pc = "categorized" /\ KeywordPrepended) =>
        \A b \in EntriesOf(1), a \in EntriesOf(2) :
            a.category = b.category => a.relevance_score >= b.relevance_score

\* a job that stays in the SAP category and gains the senior-role bonus
C6_Witness ==
    /\ jobs_pc = "categorized"
    /\ KeywordPrepended
    /\ \E b \in EntriesOf(1), a \in EntriesOf(2) :
          /\ a.category = "SAP" /\ b.category = "SAP"
          /\ a.relevance_score > b.relevance_score

----------------------------------------------------------------------------
(* StockCollector.get_stock_data: the three market-cap lists.  Each list   *)
(* is filled from the Screener.in page, then the MoneyControl page, then   *)
(* the quote service asked for a fixed list of symbols.                    *)

\* the largest number of rows a scraped page yields
MaxRows == 2

\* get_stock_data: the count asked for each category
StockCounts == [large |-> 6, mid |-> 4, small |-> 2]

\* get_stock_data: the key of each category in the result
StockKeys == [large |-> "large_cap", mid |-> "mid_cap", small |-> "small_cap"]

fallback_symbols ==
    [large |-> << "RELIANCE.NS", "TCS.NS", "INFY.NS", "HDFCBANK.NS",
                  "ICICIBANK.NS", "HINDUNILVR.NS", "SBIN.NS", "BHARTIARTL.NS",
                  "ITC.NS", "KOTAKBANK.NS", "LT.NS", "HCLTECH.NS" >>,
     mid   |-> << "TATAMOTORS.NS", "BAJFINANCE.NS", "M&M.NS", "SUNPHARMA.NS",
                  "TECHM.NS", "TITAN.NS", "POWERGRID.NS", "NTPC.NS",
                  "BAJAJFINSV.NS", "MARUTI.NS" >>,
     small |-> << "ZEEL.NS", "IDEA.NS", "SAIL.NS", "COALINDIA.NS",
                  "NMDC.NS", "VEDL.NS", "TATASTEEL.NS", "JSWSTEEL.NS" >>]

Min(a, b) == IF a < b THEN a ELSE b

\* seq[:n]
Take(seq, n) == SubSeq(seq, 1, Min(n, Len(seq)))

\* str.endswith
EndsWith(s, suffix) ==
    /\ Len(s) >= Len(suffix)
    /\ SubSeq(s, Len(s) - Len(suffix) + 1, Len(s)) = suffix

\* str.replace(old, '')
RECURSIVE RemoveAll(_, _)
RemoveAll(s, old) ==
    IF Len(s) < Len(old) THEN s
    ELSE IF SubSeq(s, 1, Len(old)) = old
         THEN RemoveAll(SubSeq(s, Len(old) + 1, Len(s)), old)
         ELSE SubSeq(s, 1, 1) \o RemoveAll(SubSeq(s, 2, Len(s)), old)

\* Python's None where a quote is expected
NoQuote == [symbol |-> "None", current_price |-> 0, source |-> "None"]

\* hist['Close'][-1] of a symbol the quote service knows
ClosePrice == 100

\* the prices a MoneyControl row can carry; _clean_number gives 0 for a cell
\* it cannot read
PagePrices == {0, 250}

\* the symbols the quote service may lack while it is up
UnlistedChoices == {"RELIANCE.NS", "ZEEL.NS"}

\* the company of row i of a scraped page: the pages list the same companies
PageSymbol(category, i) == RemoveAll(fallback_symbols[category][i], ".NS")

\* None when the lookup raises or the history is empty
_get_yfinance_stock_info(symbol) ==
    IF ~yfinance.up \/ symbol \in yfinance.unlisted
    THEN NoQuote
    ELSE [symbol |-> RemoveAll(symbol, ".NS"), current_price |-> ClosePrice,
          source |-> ""]

\* the same lookup, for symbol + '.NS'
_get_enhanced_stock_info(symbol) ==
    LET yf_symbol == IF EndsWith(symbol, ".NS") THEN symbol
                     ELSE symbol \o ".NS"
    IN  IF ~yfinance.up \/ yf_symbol \in yfinance.unlisted
        THEN NoQuote
        ELSE [symbol |-> RemoveAll(symbol, ".NS"),
              current_price |-> ClosePrice, source |-> ""]

\* the quotes of the list that are not None, each with its source set
Sourced(quotes, source) ==
    LET found == SelectSeq(quotes, LAMBDA q : q # NoQuote)
    IN  [i \in 1..Len(found) |-> [found[i] EXCEPT !.source = source]]

_scrape_screener_stocks(category, count) ==
    LET n == Min(count, screener_rows[category])
    IN  Sourced([i \in 1..n |-> _get_enhanced_stock_info(PageSymbol(category, i))],
                "Screener.in")

\* stock_info after _enhance_with_yfinance: the price of the page unless it
\* is 0 and the quote service has one
_enhance_with_yfinance(stock_info) ==
    LET yf_symbol == IF EndsWith(stock_info.symbol, ".NS")
                     THEN stock_info.symbol
                     ELSE stock_info.symbol \o ".NS"
        yf_data == _get_yfinance_stock_info(yf_symbol)
    IN  IF yf_data # NoQuote /\ stock_info.current_price = 0
        THEN [stock_info EXCEPT !.current_price = yf_data.current_price]
        ELSE stock_info

_scrape_moneycontrol_stocks(category, count) ==
    LET n == Min(count, mc_rows[category])
    IN  [i \in 1..n |->
            _enhance_with_yfinance([symbol |-> PageSymbol(category, i),
                                    current_price |-> mc_price,
                                    source |-> "MoneyControl"])]

_get_yfinance_fallback_stocks(category, count) ==
    LET symbols == Take(fallback_symbols[category], count)
    IN  Sourced([i \in 1..Len(symbols) |-> _get_yfinance_stock_info(symbols[i])],
                "Yahoo Finance (Fallback)")

\* the scrapers and the fallback catch every exception themselves, so the
\* except branch of this function is not taken
_get_top_stocks_by_market_cap(category, count) ==
    LET screener == _scrape_screener_stocks(category, count)
        with_mc == IF Len(screener) < count
                   THEN screener \o _scrape_moneycontrol_stocks(
                                        category, count - Len(screener))
                   ELSE screener
        stocks == IF Len(with_mc) < count
                  THEN with_mc \o _get_yfinance_fallback_stocks(
                                      category, count - Len(with_mc))
                  ELSE with_mc
    IN  Take(stocks, count)

StocksInit ==
    /\ EnhanceIdle
    /\ GetJobsIdle
    /\ LabelIdle
    /\ LinkIdle
    /\ ScoreIdle
    /\ FetchIdle
    /\ CategoryIdle
    /\ FiltersIdle
    /\ RunIdle
    /\ JobsIdle
    /\ FeedIdle
    /\ DedupIdle
    /\ screener_rows \in [StockCategories -> 0..MaxRows]
    /\ mc_rows \in [StockCategories -> 0..MaxRows]
    /\ mc_price \in PagePrices
    /\ yfinance \in [up : BOOLEAN, unlisted : SUBSET UnlistedChoices]
    /\ stock_data = NoStockData
    /\ stocks_pc = "called"

GetStockData ==
    /\ stocks_pc = "called"
    /\ stock_data' =
          [large_cap |-> _get_top_stocks_by_market_cap("large", StockCounts.large),
           mid_cap   |-> _get_top_stocks_by_market_cap("mid", StockCounts.mid),
           small_cap |-> _get_top_stocks_by_market_cap("small", StockCounts.small)]
    /\ stocks_pc' = "returned"
    /\ UNCHANGED << screener_rows, mc_rows, mc_price, yfinance, notStockVars >>

StocksNext == GetStockData

SpecStocks == StocksInit /\ [][StocksNext]_vars

\* neither page yields a row and the quote service answers for no symbol
AllStockSourcesFail ==
    /\ \A c \in StockCategories : screener_rows[c] = 0 /\ mc_rows[c] = 0
    /\ ~yfinance.up

\* the fallback symbols of a category, as they appear in a quote
FallbackNames(category) ==
    {RemoveAll(fallback_symbols[category][i], ".NS") :
        i \in 1..Len(fallback_symbols[category])}

\* C5: when every stock source fails, each of large_cap, mid_cap and
\* small_cap returned by get_stock_data still holds quotes of the fallback
\* symbols, each with a current_price other than zero.
C5_FallbackQuotesWhenAllSourcesFail ==
    (stocks_pc = "returned" /\ AllStockSourcesFail) =>
        \A c \in StockCategories :
            LET quotes == stock_data[StockKeys[c]]
            IN  /\ Len(quotes) > 0
                /\ \A i \in 1..Len(quotes) :
                      /\ quotes[i].symbol \in FallbackNames(c)
                      /\ quotes[i].current_price # 0

----------------------------------------------------------------------------
(* NewsCollector._parse_rss_feed and _parse_date_to_timestamp.  Time is    *)
(* counted in whole units.  A date string is a record of its format and of *)
(* what it denotes: "rfc822" carries a zone and denotes the instant t,     *)
(* "iso" is datetime.isoformat() of a naive local time and carries the     *)
(* wall-clock reading t, "garbage" and "empty" denote nothing, and         *)
(* "absent" stands for an attribute the entry does not have.               *)

\* the largest number of entries in a feed
MaxEntries == 2

\* the number of times the clock advances after the call
MaxTicks == 1

\* datetime.now() when _parse_rss_feed is called
StartClock == 2

MaxClock == StartClock + MaxTicks

\* local time minus UTC: a host west of UTC, on UTC, east of UTC
UtcOffsets == {-1, 0, 1}

Date(kind, t) == [kind |-> kind, t |-> t]

NoDate == Date("absent", 0)

\* a float timestamp, or Python's None
Timestamp(v) == [none |-> FALSE, value |-> v]

NoTimestamp == [none |-> TRUE, value |-> 0]

\* the values of published and updated in the entries of the model: the
\* instants are one unit before the call, at the call, and after every
\* later reading of the clock
DatePairs ==
    { << Date("rfc822", StartClock - 1), NoDate >>,
      << NoDate, NoDate >>,
      << NoDate, Date("rfc822", MaxClock + 1) >>,
      << NoDate, Date("rfc822", StartClock) >>,
      << Date("garbage", 0), NoDate >>,
      << Date("empty", 0), Date("empty", 0) >> }

EntryTitles == {"Markets rally", "AI jobs boom"}

\* an entry of feed.entries; has_title is FALSE when the entry has no title
FeedEntries ==
    { [has_title |-> TRUE, title |-> t, description |-> "Stocks rose today",
       published |-> d[1], updated |-> d[2]] :
        t \in EntryTitles, d \in DatePairs }
    \cup { [has_title |-> FALSE, title |-> "", description |-> "",
            published |-> Date("rfc822", StartClock - 1), updated |-> NoDate] }

RECURSIVE SeqsUpTo(_, _)
SeqsUpTo(S, n) ==
    IF n = 0 THEN { <<>> }
    ELSE LET shorter == SeqsUpTo(S, n - 1)
         IN  shorter \cup { Append(q, e) : q \in {x \in shorter : Len(x) = n - 1},
                                            e \in S }

\* what feedparser.parse does: it raises, or it returns a feed whose entries
\* are those it could read; bozo is set when the document is not well-formed
Feeds ==
    { [raises |-> TRUE, bozo |-> TRUE, entries |-> <<>>] }
    \cup [raises : {FALSE}, bozo : BOOLEAN,
          entries : SeqsUpTo(FeedEntries, MaxEntries)]

\* feedparser._parse_date: the UTC fields of the instant; a string without a
\* zone is read as UTC.  "none" when no handler reads the string.
feedparser_parse_date(date_string) ==
    IF date_string.kind \in {"rfc822", "iso"}
    THEN [none |-> FALSE, fields |-> date_string.t]
    ELSE [none |-> TRUE, fields |-> 0]

\* datetime(*fields).timestamp() and naive dt.timestamp(): the fields are
\* taken as local time
LocalTimestamp(fields) == fields - utc_offset

\* datetime.now().isoformat()
NowIsoformat == Date("iso", now + utc_offset)

\* the mutation: the function ends without the fallback to the current time
_parse_date_to_timestamp_no_fallback(date_string) ==
    LET parsed_date == IF has_parse_date
                       THEN feedparser_parse_date(date_string)
                       ELSE [none |-> TRUE, fields |-> 0]
    IN  IF ~parsed_date.none THEN Timestamp(LocalTimestamp(parsed_date.fields))
        ELSE IF date_string.kind = "iso"
             THEN Timestamp(LocalTimestamp(date_string.t))
             ELSE IF date_string.kind = "rfc822"
                  THEN Timestamp(date_string.t)
                  ELSE NoTimestamp

_parse_date_to_timestamp(date_string) ==
    LET parsed_date == IF has_parse_date
                       THEN feedparser_parse_date(date_string)
                       ELSE [none |-> TRUE, fields |-> 0]
    IN  IF ~parsed_date.none THEN Timestamp(LocalTimestamp(parsed_date.fields))
        \* datetime.fromisoformat(date_string).timestamp()
        ELSE IF date_string.kind = "iso"
             THEN Timestamp(LocalTimestamp(date_string.t))
             \* email.utils.mktime_tz(email.utils.parsedate_tz(date_string))
             ELSE IF date_string.kind = "rfc822"
                  THEN Timestamp(date_string.t)
                  \* datetime.now().timestamp()
                  ELSE Timestamp(now)

\* if not published: '' and a missing attribute alike
Falsy(date_string) == date_string.kind \in {"absent", "empty"}

\* published of the item made from the entry
PublishedOf(entry) ==
    IF ~Falsy(entry.published) THEN entry.published
    ELSE IF entry.updated.kind # "absent" THEN entry.updated
         ELSE NowIsoformat

\* clean_content: the descriptions of the model are plain text of fewer than
\* 200 characters, which is kept as it is
CleanContent(entry) ==
    IF entry.description = "" THEN "No description available"
    ELSE entry.description

\* the news_item of entry i; url, source and category are left out, none of
\* them raises
NewsItem(entry, i) ==
    [entry |-> i,
     title |-> entry.title,
     description |-> CleanContent(entry),
     published |-> PublishedOf(entry),
     published_timestamp |-> _parse_date_to_timestamp(PublishedOf(entry))]

\* the body of the try block: entry.title raises AttributeError for an entry
\* without a title, and the loop ends there
ParseBody(f, lim) ==
    IF f.raises THEN [raised |-> TRUE, items |-> <<>>]
    ELSE IF f.entries = <<>> THEN [raised |-> FALSE, items |-> <<>>]
    ELSE LET first == Take(f.entries, lim)
         IN  IF \E i \in 1..Len(first) : ~first[i].has_title
             THEN [raised |-> TRUE, items |-> <<>>]
             ELSE [raised |-> FALSE,
                   items |-> [i \in 1..Len(first) |-> NewsItem(first[i], i)]]

\* the mutation: no except clause around the body
_parse_rss_feed_no_except(f, lim) == ParseBody(f, lim)

_parse_rss_feed(f, lim) ==
    LET body == ParseBody(f, lim)
    IN  IF body.raised THEN [raised |-> FALSE, items |-> <<>>] ELSE body

FeedInit ==
    /\ EnhanceIdle
    /\ GetJobsIdle
    /\ LabelIdle
    /\ LinkIdle
    /\ ScoreIdle
    /\ FetchIdle
    /\ CategoryIdle
    /\ FiltersIdle
    /\ RunIdle
    /\ JobsIdle
    /\ StocksIdle
    /\ DedupIdle
    /\ now = StartClock
    /\ utc_offset \in UtcOffsets
    /\ has_parse_date \in BOOLEAN
    /\ feed \in Feeds
    /\ limit \in {1, MaxEntries}
    /\ parsed = NotParsed
    /\ feed_pc = "called"

ParseRssFeed ==
    /\ feed_pc = "called"
    /\ parsed' = _parse_rss_feed(feed, limit)
    /\ feed_pc' = "returned"
    /\ UNCHANGED << now, utc_offset, has_parse_date, feed, limit, notFeedVars >>

\* time passes before the items are read
Tick ==
    /\ feed_pc = "returned"
    /\ now < MaxClock
    /\ now' = now + 1
    /\ UNCHANGED << utc_offset, has_parse_date, feed, limit, parsed, feed_pc,
                    notFeedVars >>

FeedNext == ParseRssFeed \/ Tick

SpecFeed == FeedInit /\ [][FeedNext]_vars

----------------------------------------------------------------------------
(* Properties of _parse_rss_feed *)

\* the entries the loop of _parse_rss_feed looks at
FirstEntries == Take(feed.entries, limit)

\* C7: an entry without a title among the first `limit` entries is skipped,
\* and every entry with a title among them is returned as one item, in feed
\* order, with its title.
C7_MalformedEntrySkipped ==
    (feed_pc = "returned" /\ ~feed.raises) =>
        LET good == SelectSeq(FirstEntries, LAMBDA e : e.has_title)
        IN  /\ Len(parsed.items) = Len(good)
            /\ \A i \in 1..Len(good) : parsed.items[i].title = good[i].title

\* C8 as stated: for a feed that feedparser cannot fetch, that is not
\* well-formed, or that has no entries, the call does not raise and returns
\* the empty list.
C8_EmptyListForBadFeed ==
    (feed_pc = "returned" /\ (feed.raises \/ feed.bozo \/ feed.entries = <<>>))
        => (~parsed.raised /\ parsed.items = <<>>)

\* C8 (amended): the call never raises, and it returns the empty list when
\* feedparser.parse raises or yields no entries.
C8_NeverRaisesEmptyWhenNothingRead ==
    feed_pc = "returned" =>
        /\ ~parsed.raised
        /\ (feed.raises \/ feed.entries = <<>>) => parsed.items = <<>>

C8_Witness ==
    /\ feed_pc = "returned"
    /\ feed.raises
    /\ parsed = [raised |-> FALSE, items |-> <<>>]

\* the date strings handed to _parse_date_to_timestamp
DateStrings ==
    { Date("empty", 0), Date("garbage", 0) }
    \cup { Date(k, t) : k \in {"rfc822", "iso"}, t \in 0..(MaxClock + 1) }

\* _parse_date_to_timestamp returns a timestamp for every date string
NeverNone == \A d \in DateStrings : ~_parse_date_to_timestamp(d).none

\* the entry an item was made from
EntryOf(item) == feed.entries[item.entry]

\* C9 as stated: _parse_date_to_timestamp never returns None, and the item
\* of an entry without a publish date has a published_timestamp that is not
\* None and not later than the clock, whenever it is read.
C9_NoPublishDateNotInFuture ==
    /\ NeverNone
    /\ feed_pc = "returned" =>
          \A i \in 1..Len(parsed.items) :
              Falsy(EntryOf(parsed.items[i]).published) =>
                  /\ ~parsed.items[i].published_timestamp.none
                  /\ parsed.items[i].published_timestamp.value <= now

\* C9 (amended): _parse_date_to_timestamp never returns None, and the item
\* of an entry with neither a publish date nor an updated date has a
\* published_timestamp that is not None and not later than the clock,
\* whenever it is read.
C9_NoDateNotInFuture ==
    /\ NeverNone
    /\ feed_pc = "returned" =>
          \A i \in 1..Len(parsed.items) :
              (/\ Falsy(EntryOf(parsed.items[i]).published)
               /\ Falsy(EntryOf(parsed.items[i]).updated)) =>
                  /\ ~parsed.items[i].published_timestamp.none
                  /\ parsed.items[i].published_timestamp.value <= now

C9_Witness ==
    /\ feed_pc = "returned"
    /\ now > StartClock
    /\ \E i \in 1..Len(parsed.items) :
          /\ EntryOf(parsed.items[i]).published = NoDate
          /\ EntryOf(parsed.items[i]).updated = NoDate
          /\ parsed.items[i].published_timestamp = Timestamp(StartClock)

----------------------------------------------------------------------------
(* NewsCollector._remove_duplicates *)

\* the largest number of items handed to _remove_duplicates
MaxNews == 3

NewsTitles == { "AI jobs boom in India today",
                "india in boom jobs ai tomorrow",
                "  AI  jobs boom in India ",
                "AI jobs boom in",
                "AI AI jobs boom in India",
                "Markets rally" }

\* str.strip(): without the spaces at either end
RECURSIVE Strip(_)
Strip(s) ==
    IF Len(s) = 0 THEN s
    ELSE IF SubSeq(s, 1, 1) = " " THEN Strip(SubSeq(s, 2, Len(s)))
    ELSE IF SubSeq(s, Len(s), Len(s)) = " " THEN Strip(SubSeq(s, 1, Len(s) - 1))
    ELSE s

\* str.split(): the words between runs of spaces; cur is the word being read
RECURSIVE SplitFrom(_, _)
SplitFrom(s, cur) ==
    IF Len(s) = 0 THEN (IF Len(cur) = 0 THEN <<>> ELSE << cur >>)
    ELSE IF SubSeq(s, 1, 1) = " "
         THEN (IF Len(cur) = 0 THEN <<>> ELSE << cur >>)
              \o SplitFrom(SubSeq(s, 2, Len(s)), "")
         ELSE SplitFrom(SubSeq(s, 2, Len(s)), cur \o SubSeq(s, 1, 1))

Split(s) == SplitFrom(s, "")

\* the order of characters: digits before letters
CharOrder == Digits \o LowerCase

CharRank(c) == CHOOSE i \in 1..Len(CharOrder) : SubSeq(CharOrder, i, i) = c

\* a < b for str
RECURSIVE StrLess(_, _)
StrLess(a, b) ==
    IF Len(b) = 0 THEN FALSE
    ELSE IF Len(a) = 0 THEN TRUE
    ELSE IF SubSeq(a, 1, 1) = SubSeq(b, 1, 1)
         THEN StrLess(SubSeq(a, 2, Len(a)), SubSeq(b, 2, Len(b)))
         ELSE CharRank(SubSeq(a, 1, 1)) < CharRank(SubSeq(b, 1, 1))

\* the word put at its place in a sorted list
RECURSIVE Insert(_, _)
Insert(w, sorted_words) ==
    IF sorted_words = <<>> THEN << w >>
    ELSE IF StrLess(Head(sorted_words), w)
         THEN << Head(sorted_words) >> \o Insert(w, Tail(sorted_words))
         ELSE << w >> \o sorted_words

\* sorted(words)
RECURSIVE Sorted(_)
Sorted(words) ==
    IF words = <<>> THEN <<>> ELSE Insert(Head(words), Sorted(Tail(words)))

\* ' '.join(words)
RECURSIVE Join(_)
Join(words) ==
    IF words = <<>> THEN ""
    ELSE IF Len(words) = 1 THEN words[1]
    ELSE words[1] \o " " \o Join(Tail(words))

\* title.split()[:5] of the lower-cased, stripped title
FirstWords(item) == Take(Split(Strip(Lower(item.title))), 5)

\* the mutation: the first five words are joined in the order they have
simplified_title_unsorted(item) == Join(FirstWords(item))

\* ' '.join(sorted(title.split()[:5]))
simplified_title(item) == Join(Sorted(FirstWords(item)))

\* the loop of _remove_duplicates over the items from position i on
RECURSIVE DedupFrom(_, _, _)
DedupFrom(items, i, seen_titles) ==
    IF i > Len(items) THEN <<>>
    ELSE LET key == simplified_title(items[i])
         IN  IF key \in seen_titles
             THEN DedupFrom(items, i + 1, seen_titles)
             ELSE << items[i] >>
                  \o DedupFrom(items, i + 1, seen_titles \cup {key})

_remove_duplicates(items) == DedupFrom(items, 1, {})

\* the lists of items: item i has the id i
NewsLists ==
    { [i \in 1..Len(ts) |-> [id |-> i, title |-> ts[i]]] :
        ts \in SeqsUpTo(NewsTitles, MaxNews) }

DedupInit ==
    /\ EnhanceIdle
    /\ GetJobsIdle
    /\ LabelIdle
    /\ LinkIdle
    /\ ScoreIdle
    /\ FetchIdle
    /\ CategoryIdle
    /\ FiltersIdle
    /\ RunIdle
    /\ JobsIdle
    /\ StocksIdle
    /\ FeedIdle
    /\ news_items \in NewsLists
    /\ unique_items = <<>>
    /\ dedup_pc = "called"

RemoveDuplicates ==
    /\ dedup_pc = "called"
    /\ unique_items' = _remove_duplicates(news_items)
    /\ dedup_pc' = "returned"
    /\ UNCHANGED << news_items, notDedupVars >>

DedupNext == RemoveDuplicates

SpecDedup == DedupInit /\ [][DedupNext]_vars

\* the number of times the word is in the list
WordCount(words, w) == Cardinality({k \in 1..Len(words) : words[k] = w})

\* the two lists hold the same words, in any order
SameWords(wa, wb) ==
    /\ Len(wa) = Len(wb)
    /\ \A k \in 1..Len(wa) : WordCount(wa, wa[k]) = WordCount(wb, wa[k])

\* the positions of the items that have no earlier item with the same first
\* five words
FirstOfTheirKey ==
    LET words == [i \in 1..Len(news_items) |-> FirstWords(news_items[i])]
    IN  {i \in 1..Len(news_items) :
            \A j \in 1..(i - 1) : ~SameWords(words[j], words[i])}

\* C10: the result of _remove_duplicates holds, in input order, exactly the
\* items that have no earlier item with the same first five lower-cased
\* words in any order; of items that share these words only the earliest
\* is in the result.
C10_FirstOfEachKeyKeptInOrder ==
    dedup_pc = "returned" =>
        LET kept == FirstOfTheirKey
        IN  /\ Len(unique_items) = Cardinality(kept)
            /\ \A k \in 1..Len(unique_items) :
                  /\ unique_items[k].id \in kept
                  /\ unique_items[k] = news_items[unique_items[k].id]
            /\ \A k \in 1..(Len(unique_items) - 1) :
                  unique_items[k].id < unique_items[k + 1].id

C10_Witness ==
    /\ dedup_pc = "returned"
    /\ Len(news_items) >= 2
    /\ news_items[1].title = "AI jobs boom in India today"
    /\ news_items[2].title = "india in boom jobs ai tomorrow"
    /\ unique_items = << news_items[1] >>

----------------------------------------------------------------------------
(* NewsCollector._filter_last_24_hours and _exclude_categories, each       *)
(* applied to a list of items.  An item is a dict: a record with the keys  *)
(* it has.                                                                 *)

\* the largest number of items handed to a filter
MaxFiltered == 1

\* timedelta(hours=24), in the units of the clock: one unit is six hours
DayLength == 4

\* datetime.now() when a filter is called: later than one day after the epoch
FilterNow == StartClock + DayLength

excluded_categories ==
    { "entertainment", "sports", "celebrity", "bollywood", "hollywood",
      "cricket", "football", "tennis", "movies", "music", "fashion",
      "lifestyle", "gossip", "celebrity news", "film", "actor", "actress" }

\* item.get('published_timestamp', 0)
GetTimestamp(item) ==
    IF "published_timestamp" \in DOMAIN item
    THEN item.published_timestamp.value
    ELSE 0

\* the mutation: an item exactly one day old is dropped
KeepRecent_strict(item) == GetTimestamp(item) > now - DayLength

\* item.get('published_timestamp', 0) >= twenty_four_hours_timestamp
KeepRecent(item) == GetTimestamp(item) >= now - DayLength

_filter_last_24_hours(items) == SelectSeq(items, KeepRecent)

\* the mutation: only the title is searched
IsExcluded_title_only(item) ==
    LET title_lower == Lower(item.title)
    IN  \E excluded_word \in excluded_categories :
            Contains(excluded_word, title_lower)

\* is_excluded after the loop over excluded_categories
IsExcluded(item) ==
    LET title_lower == Lower(item.title)
        description_lower == Lower(item.description)
    IN  \E excluded_word \in excluded_categories :
            \/ Contains(excluded_word, title_lower)
            \/ Contains(excluded_word, description_lower)

NotExcluded(item) == ~IsExcluded(item)

_exclude_categories(items) == SelectSeq(items, NotExcluded)

FilterTitles == { "Markets rally", "Rates held", "CRICKET final tonight",
                  "New factory opens" }

FilterDescriptions == { "", "Stocks rose today", "A Bollywood star attended" }

\* published_timestamp of the items: before the boundary, on it, after it,
\* and later than the clock
FilterTimestamps ==
    { FilterNow - DayLength - 1, FilterNow - DayLength,
      FilterNow - DayLength + 1, FilterNow + 1 }

\* the items: with a published_timestamp, and without the key
FilterItems ==
    { [title |-> t, description |-> d, published_timestamp |-> Timestamp(v)] :
        t \in FilterTitles, d \in FilterDescriptions, v \in FilterTimestamps }
    \cup { [title |-> t, description |-> d] :
             t \in FilterTitles, d \in FilterDescriptions }

FiltersInit ==
    /\ EnhanceIdle
    /\ GetJobsIdle
    /\ LabelIdle
    /\ LinkIdle
    /\ ScoreIdle
    /\ FetchIdle
    /\ CategoryIdle
    /\ RunIdle
    /\ JobsIdle
    /\ StocksIdle
    /\ DedupIdle
    /\ now = FilterNow
    /\ utc_offset = 0
    /\ has_parse_date = FALSE
    /\ feed = [raises |-> FALSE, bozo |-> FALSE, entries |-> <<>>]
    /\ limit = 0
    /\ parsed = NotParsed
    /\ feed_pc = "idle"
    /\ filter_input \in SeqsUpTo(FilterItems, MaxFiltered)
    /\ recent_items = <<>>
    /\ kept_items = <<>>
    /\ recent_pc = "called"
    /\ exclude_pc = "called"

FilterLast24Hours ==
    /\ recent_pc = "called"
    /\ recent_items' = _filter_last_24_hours(filter_input)
    /\ recent_pc' = "returned"
    /\ UNCHANGED << filter_input, kept_items, exclude_pc, notFilterVars >>

ExcludeCategories ==
    /\ exclude_pc = "called"
    /\ kept_items' = _exclude_categories(filter_input)
    /\ exclude_pc' = "returned"
    /\ UNCHANGED << filter_input, recent_items, recent_pc, notFilterVars >>

FiltersNext == FilterLast24Hours \/ ExcludeCategories

SpecFilters == FiltersInit /\ [][FiltersNext]_vars

\* the keyword occurs in the text at position i, letter case set aside
OccursAt(keyword, text, i) ==
    \A k \in 1..Len(keyword) :
        LowerChar(SubSeq(text, i + k - 1, i + k - 1)) = SubSeq(keyword, k, k)

\* some excluded keyword occurs in the text, in either letter case
HasExcludedKeyword(text) ==
    \E keyword \in excluded_categories :
        \E i \in 1..(Len(text) - Len(keyword) + 1) : OccursAt(keyword, text, i)

\* the positions of the input whose item is to be kept
WithoutKeyword ==
    {i \in 1..Len(filter_input) :
        /\ ~HasExcludedKeyword(filter_input[i].title)
        /\ ~HasExcludedKeyword(filter_input[i].description)}

\* the items of the input at the positions of the set, in input order
RECURSIVE ItemsAt(_, _)
ItemsAt(positions, from) ==
    IF from > Len(filter_input) THEN <<>>
    ELSE (IF from \in positions THEN << filter_input[from] >> ELSE <<>>)
         \o ItemsAt(positions, from + 1)

\* C11: _exclude_categories returns exactly the items in which no excluded
\* keyword occurs, neither in the title nor in the description, in either
\* letter case; every other item is dropped.
C11_ExcludedExactlyOnKeyword ==
    exclude_pc = "returned" => kept_items = ItemsAt(WithoutKeyword, 1)

C11_Witness ==
    /\ exclude_pc = "returned"
    /\ Len(filter_input) = 1
    /\ filter_input[1].title = "Markets rally"
    /\ filter_input[1].description = "A Bollywood star attended"
    /\ kept_items = <<>>

\* the positions of the input whose item is at most one day old
NotOlderThanADay ==
    {i \in 1..Len(filter_input) :
        /\ "published_timestamp" \in DOMAIN filter_input[i]
        /\ ~(filter_input[i].published_timestamp.value < now - DayLength)}

\* C12: _filter_last_24_hours drops the items whose published_timestamp is
\* older than the clock minus 24 hours and the items without one, and keeps
\* the items exactly 24 hours old and newer.
C12_BoundaryInclusive ==
    recent_pc = "returned" => recent_items = ItemsAt(NotOlderThanADay, 1)

C12_Witness ==
    /\ recent_pc = "returned"
    /\ Len(filter_input) = 1
    /\ "published_timestamp" \in DOMAIN filter_input[1]
    /\ filter_input[1].published_timestamp.value = now - DayLength
    /\ recent_items = filter_input

----------------------------------------------------------------------------
(* NewsCollector.get_global_news, get_india_news, get_business_news and    *)
(* get_regional_news: every feed of the category is parsed, filtered and   *)
(* merged; the merged list is deduplicated, sorted and cut.                *)

\* the largest number of headlines a scraped page yields
MaxHeadlines == 1

NewsCategories == {"global", "india", "business", "regional"}

\* the limit each collector passes to _parse_rss_feed
CategoryLimit == [global |-> 5, india |-> 5, business |-> 6, regional |-> 3]

\* the length each collector cuts its result to
CategoryTop == [global |-> 10, india |-> 10, business |-> 8, regional |-> 8]

\* local time minus UTC: a host on UTC and a host twelve hours east of it
CategoryOffsets == {0, DayLength \div 2}

CategoryTitles == {"Markets rally", "AI jobs boom"}

\* publish dates: unparsable, and eighteen hours before the call
CategoryDates == { Date("garbage", 0), Date("rfc822", FilterNow - (DayLength - 1)) }

CategoryEntries ==
    { [has_title |-> TRUE, title |-> t, description |-> "Stocks rose today",
       published |-> d, updated |-> NoDate] :
        t \in CategoryTitles, d \in CategoryDates }

FailedFeed == [raises |-> TRUE, bozo |-> TRUE, entries |-> <<>>]

EmptyFeed == [raises |-> FALSE, bozo |-> FALSE, entries |-> <<>>]

ThreeEntryFeeds ==
    { [raises |-> FALSE, bozo |-> FALSE, entries |-> << a, b, c >>] :
        a \in CategoryEntries, b \in CategoryEntries, c \in CategoryEntries }

\* twelve titles that _remove_duplicates tells apart, none with an excluded
\* keyword
LongTitles == << "Rates held", "Port opens", "Rain eases", "Bridge reopens",
                 "Budget passes", "Chip plant planned", "Rail link approved",
                 "Harvest improves", "Tariffs lowered", "Dam repaired",
                 "Bank merges", "Fuel prices drop" >>

\* the positions, among the twelve, of the entries published eighteen hours
\* before the call; the other entries have a date that does not parse
OlderPositions == { {}, {1, 3, 5, 7, 9, 11}, 1..6, 7..12 }

LongEntry(i, older) ==
    [has_title |-> TRUE, title |-> LongTitles[i],
     description |-> "Stocks rose today",
     published |-> IF i \in older
                   THEN Date("rfc822", FilterNow - (DayLength - 1))
                   ELSE Date("garbage", 0),
     updated |-> NoDate]

\* the k-th of three feeds that carry the twelve entries, four each
LongFeed(k, older) ==
    [raises |-> FALSE, bozo |-> FALSE,
     entries |-> [j \in 1..4 |-> LongEntry(4 * (k - 1) + j, older)]]

\* three feeds that answer, with more items than a collector returns
LongSourceLists ==
    { << LongFeed(1, o), LongFeed(2, o), LongFeed(3, o) >> :
        o \in OlderPositions }

\* the feeds of a category: at most one of them has entries, or three of
\* them have four entries each
SourceLists ==
    { << f, g >> : f \in ThreeEntryFeeds \cup {FailedFeed, EmptyFeed},
                   g \in {FailedFeed, EmptyFeed} }
    \cup { << g, f >> : f \in ThreeEntryFeeds, g \in {FailedFeed, EmptyFeed} }
    \cup LongSourceLists

\* the loop over the feed URLs: news_items after the feeds from position i on
RECURSIVE CollectFeeds(_, _, _)
CollectFeeds(feeds, lim, i) ==
    IF i > Len(feeds) THEN <<>>
    ELSE _exclude_categories(
             _filter_last_24_hours(_parse_rss_feed(feeds[i], lim).items))
         \o CollectFeeds(feeds, lim, i + 1)

\* the item put at its place in a list sorted by published_timestamp, newest
\* first; among equal timestamps the item comes first
RECURSIVE InsertNewest(_, _)
InsertNewest(item, sorted_items) ==
    IF sorted_items = <<>> THEN << item >>
    ELSE IF GetTimestamp(Head(sorted_items)) > GetTimestamp(item)
         THEN << Head(sorted_items) >> \o InsertNewest(item, Tail(sorted_items))
         ELSE << item >> \o sorted_items

\* the mutation: the merged list is cut in the order of the feeds
SortNewest_unsorted(items) == items

\* sorted(news_items, key=published_timestamp, reverse=True)
RECURSIVE SortNewest(_)
SortNewest(items) ==
    IF items = <<>> THEN <<>>
    ELSE InsertNewest(Head(items), SortNewest(Tail(items)))

\* the titles of the headlines a page carries, each longer than 10 characters
ApTitles == << "Vizag port expansion approved",
               "Amaravati works resume next month",
               "Godavari water level rises" >>

BlrTitles == << "Cricket stadium gets a new stand",
                "Lake restoration drive begins",
                "Tech park traffic plan announced" >>

\* soup.find_all(['h1', 'h2', 'h3'], limit=3)
ScrapedItems(titles, headlines, description) ==
    [i \in 1..Min(3, headlines) |->
        [title |-> titles[i], description |-> description,
         published_timestamp |-> Timestamp(now)]]

_scrape_ap_news == ScrapedItems(ApTitles, ap_headlines,
                                "Regional news from Andhra Pradesh")

_scrape_bangalore_news == ScrapedItems(BlrTitles, blr_headlines,
                                       "Regional news from Bangalore")

_get_sample_regional_news ==
    << [title |-> "IT Sector Growth in Hyderabad and Bangalore",
        description |-> "Technology companies continue to expand operations in major South Indian cities",
        published_timestamp |-> Timestamp(now)],
       [title |-> "Infrastructure Development Updates",
        description |-> "Metro rail and road infrastructure projects showing progress in regional cities",
        published_timestamp |-> Timestamp(now)],
       [title |-> "Educational Initiatives in Andhra Pradesh",
        description |-> "State government launches new educational and skill development programs",
        published_timestamp |-> Timestamp(now)] >>

\* get_global_news, get_india_news and get_business_news
get_feed_news(cat) ==
    Take(SortNewest(_remove_duplicates(
             CollectFeeds(sources, CategoryLimit[cat], 1))),
         CategoryTop[cat])

\* regional_news before it is deduplicated: the feed items, the scraped
\* headlines when the feeds gave fewer than 4, the sample items when all
\* of that is empty
regional_news_merged ==
    LET from_feeds == CollectFeeds(sources, CategoryLimit.regional, 1)
        with_scraped == IF Len(from_feeds) < 4
                        THEN from_feeds \o _scrape_ap_news
                                        \o _scrape_bangalore_news
                        ELSE from_feeds
    IN  IF with_scraped = <<>>
        THEN _get_sample_regional_news
        ELSE with_scraped

get_regional_news ==
    Take(SortNewest(_remove_duplicates(regional_news_merged)),
         CategoryTop.regional)

CategoryInit ==
    /\ EnhanceIdle
    /\ GetJobsIdle
    /\ LabelIdle
    /\ LinkIdle
    /\ ScoreIdle
    /\ FetchIdle
    /\ RunIdle
    /\ JobsIdle
    /\ StocksIdle
    /\ DedupIdle
    /\ FiltersIdle
    /\ now = FilterNow
    /\ utc_offset \in CategoryOffsets
    /\ has_parse_date \in BOOLEAN
    /\ feed = [raises |-> FALSE, bozo |-> FALSE, entries |-> <<>>]
    /\ limit = 0
    /\ parsed = NotParsed
    /\ feed_pc = "idle"
    /\ news_category \in NewsCategories
    /\ sources \in SourceLists
    /\ ap_headlines \in (IF news_category = "regional" THEN 0..MaxHeadlines ELSE {0})
    /\ blr_headlines \in (IF news_category = "regional" THEN 0..MaxHeadlines ELSE {0})
    /\ category_result = <<>>
    /\ category_pc = "called"

GetCategoryNews ==
    /\ category_pc = "called"
    /\ category_result' = IF news_category = "regional"
                          THEN get_regional_news
                          ELSE get_feed_news(news_category)
    /\ category_pc' = "returned"
    /\ UNCHANGED << news_category, sources, ap_headlines, blr_headlines,
                    notCategoryVars >>

CategoryNext == GetCategoryNews

SpecCategory == CategoryInit /\ [][CategoryNext]_vars

\* the positions of the feeds of the category that have entries
Answering == {i \in 1..Len(sources) : sources[i].entries # <<>>}

\* the entries of the one feed that answers
AnsweringEntries == sources[CHOOSE i \in Answering : TRUE].entries

\* one feed answers, with three entries: one has an unparsable date, and
\* two of them have the same title, the third another
ThreeEntryScenario ==
    /\ Cardinality(Answering) = 1
    /\ Len(AnsweringEntries) = 3
    /\ Cardinality({i \in 1..3 : AnsweringEntries[i].published.kind = "garbage"}) = 1
    /\ Cardinality({AnsweringEntries[i].title : i \in 1..3}) = 2

\* C13: when the only feed that answers has three entries, one with an
\* unparsable date and one with the title of another, the dates that parse
\* being less than 24 hours old, the list of the category has exactly two
\* items, each with a published_timestamp that is a number.
C13_ThreeEntriesGiveTwoItems ==
    (/\ category_pc = "returned"
     /\ news_category # "regional"
     /\ ThreeEntryScenario) =>
        /\ Len(category_result) = 2
        /\ \A i \in 1..Len(category_result) :
              ~category_result[i].published_timestamp.none

\* every feed of the category fails or has no entries, and the scraped pages
\* yield no headline
EverySourceFails ==
    /\ Answering = {}
    /\ ap_headlines = 0
    /\ blr_headlines = 0

\* C17: when every source of a news category fails or yields nothing, the
\* list returned for the category is not empty.
C17_CategoryNeverEmpty ==
    (category_pc = "returned" /\ EverySourceFails) => category_result # <<>>

----------------------------------------------------------------------------
(* A page fetched by a collector: _scrape_ap_news of the NewsCollector and *)
(* _scrape_screener_stocks of the StockCollector issue session.get once    *)
(* and look at the status of the response.                                 *)

\* Config.MAX_RETRIES
MAX_RETRIES == 3

\* Config.RETRY_STATUS_CODES
RETRY_STATUS_CODES == {429, 500, 502, 503, 504}

\* the statuses a server gives in the model
HttpStatuses == {200, 204, 429, 503}

\* the statuses the server would give to the first GET and to each GET after
ResponseLists == [1..(MAX_RETRIES + 1) -> HttpStatuses]

FetchInit ==
    /\ EnhanceIdle
    /\ GetJobsIdle
    /\ LabelIdle
    /\ LinkIdle
    /\ ScoreIdle
    /\ RunIdle
    /\ JobsIdle
    /\ StocksIdle
    /\ FeedIdle
    /\ DedupIdle
    /\ FiltersIdle
    /\ CategoryIdle
    /\ http_responses \in ResponseLists
    /\ http_attempts = 0
    /\ fetch_outcome = "none"
    /\ fetch_pc = "called"

\* _scrape_ap_news: response = self.session.get(...);
\* if response.status_code == 200 the page is parsed, otherwise ap_news
\* stays empty
ScrapeApNewsGet ==
    /\ fetch_pc = "called"
    /\ http_attempts' = http_attempts + 1
    /\ fetch_outcome' = IF http_responses[http_attempts + 1] = 200
                        THEN "page" ELSE "unavailable"
    /\ fetch_pc' = "returned"
    /\ UNCHANGED << http_responses, notFetchVars >>

\* response.raise_for_status(): raises for a status from 400 to 599
RaisesForStatus(status) == status >= 400 /\ status < 600

\* _scrape_screener_stocks: response = self.session.get(...);
\* response.raise_for_status(); the exception is caught and stocks stays
\* empty
ScrapeScreenerGet ==
    /\ fetch_pc = "called"
    /\ http_attempts' = http_attempts + 1
    /\ fetch_outcome' = IF RaisesForStatus(http_responses[http_attempts + 1])
                        THEN "unavailable" ELSE "page"
    /\ fetch_pc' = "returned"
    /\ UNCHANGED << http_responses, notFetchVars >>

FetchNext == ScrapeApNewsGet \/ ScrapeScreenerGet

SpecFetch == FetchInit /\ [][FetchNext]_vars

\* C14: a GET answered with a transient status is issued again, and the
\* source is given up only after MAX_RETRIES further attempts were answered
\* with a transient status too.
C14_TransientStatusRetried ==
    fetch_pc = "returned" =>
        /\ http_responses[1] \in RETRY_STATUS_CODES => http_attempts > 1
        /\ (/\ fetch_outcome = "unavailable"
            /\ \A i \in 1..http_attempts :
                  http_responses[i] \in RETRY_STATUS_CODES)
              => http_attempts > MAX_RETRIES

----------------------------------------------------------------------------
(* The scores and the recommendation of a quote.  A sub-score, a ratio and *)
(* a percentage are counted in tenths (9.0 is 90); an overall score, the   *)
(* sum of sub-scores times weights of hundredths, in thousandths.          *)

\* a float that is not a number: every comparison with it is false
NaN == "nan"

\* the days of history stock.history(period="5d") can give
HistLengths == {0, 4, 5}

\* current volume over the average volume of the days before, in tenths
VolumeRatios == {25, 20, 15, 10, 5}

\* the weighted momentum of _calculate_momentum_score, in tenths of a percent
Momentums == {60, 50, 20, 0, -20, -50}

\* returns.std() * 100, in tenths of a percent
Volatilities == {5, 10, 20, 30, 40, 60}

\* the change of a Moneycontrol row, in tenths of a percent
ChangePercents == {60, 50, 20, 0, -20, -50}

\* rsi.iloc[-1]: the rolling mean over a window of 14 days is not a number
\* on a history of five days
Histories ==
    [len : HistLengths, ratio : VolumeRatios, momentum : Momentums,
     volatility : Volatilities, rsi : {NaN}]

_calculate_volume_score(h) ==
    IF h.len < 5 THEN 50
    ELSE IF h.ratio > 20 THEN 90
    ELSE IF h.ratio > 15 THEN 80
    ELSE IF h.ratio > 10 THEN 70
    ELSE IF h.ratio > 5 THEN 50
    ELSE 30

_calculate_momentum_score(h) ==
    IF h.len < 5 THEN 50
    ELSE IF h.momentum > 50 THEN 90
    ELSE IF h.momentum > 20 THEN 80
    ELSE IF h.momentum > 0 THEN 70
    ELSE IF h.momentum > -20 THEN 50
    ELSE IF h.momentum > -50 THEN 30
    ELSE 20

_calculate_volatility_score(h) ==
    IF h.len < 5 THEN 50
    ELSE IF h.volatility < 10 THEN 90
    ELSE IF h.volatility < 20 THEN 80
    ELSE IF h.volatility < 30 THEN 70
    ELSE IF h.volatility < 40 THEN 50
    ELSE IF h.volatility < 60 THEN 30
    ELSE 20

_calculate_rsi_score(h) ==
    IF h.rsi # NaN /\ 300 <= h.rsi /\ h.rsi <= 700 THEN 80
    ELSE IF h.rsi # NaN /\ 250 <= h.rsi /\ h.rsi <= 750 THEN 60
    ELSE 40

\* _get_recommendation without its last branch: nothing is returned below 4.0
_get_recommendation_no_else(score) ==
    IF score >= 8500 THEN "Strong Buy"
    ELSE IF score >= 7000 THEN "Buy"
    ELSE IF score >= 5500 THEN "Hold"
    ELSE IF score >= 4000 THEN "Weak Hold"
    ELSE "None"

\* score in thousandths
_get_recommendation(score) ==
    IF score >= 8500 THEN "Strong Buy"
    ELSE IF score >= 7000 THEN "Buy"
    ELSE IF score >= 5500 THEN "Hold"
    ELSE IF score >= 4000 THEN "Weak Hold"
    ELSE "Sell"

\* change in tenths of a percent, the score in tenths
_calculate_simple_score(change) ==
    IF change > 50 THEN 85
    ELSE IF change > 20 THEN 75
    ELSE IF change > 0 THEN 65
    ELSE IF change > -20 THEN 50
    ELSE IF change > -50 THEN 35
    ELSE 25

_get_recommendation_from_change(change) ==
    _get_recommendation(_calculate_simple_score(change) * 100)

\* round(overall_score, 1), the outcomes in tenths: a score half way between
\* two tenths goes to either, as its binary representation falls
Round1(score) ==
    IF score % 100 = 50 THEN {score \div 100, score \div 100 + 1}
    ELSE IF score % 100 > 50 THEN {score \div 100 + 1}
    ELSE {score \div 100}

\* overall_score of _get_enhanced_stock_info, in thousandths
EnhancedOverall(h) ==
    _calculate_momentum_score(h) * 40 + _calculate_volume_score(h) * 30
        + _calculate_volatility_score(h) * 20 + 5000

\* overall_score of _get_yfinance_stock_info, in thousandths
YfinanceOverall(h) ==
    _calculate_momentum_score(h) * 30 + _calculate_volume_score(h) * 25
        + _calculate_volatility_score(h) * 20 + _calculate_rsi_score(h) * 25

NoSubScore == -1

\* return None: the history is empty
NoScores ==
    [by |-> "None", volume_score |-> NoSubScore, momentum_score |-> NoSubScore,
     volatility_score |-> NoSubScore, rsi_score |-> NoSubScore,
     overall_score |-> NoSubScore, recommendation |-> "None"]

ScoreInit ==
    /\ EnhanceIdle
    /\ GetJobsIdle
    /\ LabelIdle
    /\ LinkIdle
    /\ RunIdle
    /\ JobsIdle
    /\ StocksIdle
    /\ FeedIdle
    /\ DedupIdle
    /\ FiltersIdle
    /\ CategoryIdle
    /\ FetchIdle
    /\ hist \in Histories
    /\ change_percent \in ChangePercents
    /\ quote = <<>>
    /\ score_pc = "called"

\* _get_enhanced_stock_info from the history on: None for an empty history
ScoreEnhancedStockInfo ==
    /\ score_pc = "called"
    /\ \/ /\ hist.len = 0
          /\ quote' = NoScores
       \/ /\ hist.len > 0
          /\ \E rounded \in Round1(EnhancedOverall(hist)) :
                quote' = [by |-> "_get_enhanced_stock_info",
                          volume_score |-> _calculate_volume_score(hist),
                          momentum_score |-> _calculate_momentum_score(hist),
                          volatility_score |-> _calculate_volatility_score(hist),
                          rsi_score |-> NoSubScore,
                          overall_score |-> rounded,
                          recommendation |->
                              _get_recommendation(EnhancedOverall(hist))]
    /\ score_pc' = "returned"
    /\ UNCHANGED << hist, change_percent, notScoreVars >>

\* _get_yfinance_stock_info from the history on
ScoreYfinanceStockInfo ==
    /\ score_pc = "called"
    /\ \/ /\ hist.len = 0
          /\ quote' = NoScores
       \/ /\ hist.len > 0
          /\ \E rounded \in Round1(YfinanceOverall(hist)) :
                quote' = [by |-> "_get_yfinance_stock_info",
                          volume_score |-> _calculate_volume_score(hist),
                          momentum_score |-> _calculate_momentum_score(hist),
                          volatility_score |-> _calculate_volatility_score(hist),
                          rsi_score |-> _calculate_rsi_score(hist),
                          overall_score |-> rounded,
                          recommendation |->
                              _get_recommendation(YfinanceOverall(hist))]
    /\ score_pc' = "returned"
    /\ UNCHANGED << hist, change_percent, notScoreVars >>

\* the stock_info of a Moneycontrol row in _scrape_moneycontrol_stocks
ScoreMoneycontrolRow ==
    /\ score_pc = "called"
    /\ quote' = [by |-> "_calculate_simple_score",
                 volume_score |-> NoSubScore,
                 momentum_score |-> NoSubScore,
                 volatility_score |-> NoSubScore,
                 rsi_score |-> NoSubScore,
                 overall_score |-> _calculate_simple_score(change_percent),
                 recommendation |->
                     _get_recommendation_from_change(change_percent)]
    /\ score_pc' = "returned"
    /\ UNCHANGED << hist, change_percent, notScoreVars >>

ScoreNext ==
    \/ ScoreEnhancedStockInfo
    \/ ScoreYfinanceStockInfo
    \/ ScoreMoneycontrolRow

SpecScore == ScoreInit /\ [][ScoreNext]_vars

QuoteScored == score_pc = "returned" /\ quote.by # "None"

InScale(score) == score = NoSubScore \/ (0 <= score /\ score <= 100)

\* C15: every overall score a quote is given lies in [0, 10], and so does
\* each of its sub-scores.
C15_ScoresWithinZeroToTen ==
    QuoteScored =>
        /\ 0 <= quote.overall_score /\ quote.overall_score <= 100
        /\ InScale(quote.volume_score)
        /\ InScale(quote.momentum_score)
        /\ InScale(quote.volatility_score)
        /\ InScale(quote.rsi_score)

\* C16 as stated: the recommendation of a quote is one of Strong Buy, Buy,
\* Hold and Sell.
C16_OneOfFourLabels ==
    QuoteScored => quote.recommendation \in {"Strong Buy", "Buy", "Hold", "Sell"}

\* C16 amended: the recommendation of a quote is one of Strong Buy, Buy,
\* Hold, Weak Hold and Sell.
C16_OneOfFiveLabels ==
    QuoteScored => quote.recommendation
                  \in {"Strong Buy", "Buy", "Hold", "Weak Hold", "Sell"}

\* a quote scored between 4.0 and 5.5 has been given its recommendation
C16_Witness ==
    /\ QuoteScored
    /\ quote.by = "_get_yfinance_stock_info"
    /\ quote.overall_score >= 40 /\ quote.overall_score < 55
    /\ quote.recommendation = "Weak Hold"

----------------------------------------------------------------------------
(* The report: presence flags, schedule and exit status *)

\* the section holds at least one item
HoldsItems(section) == data[section].items > 0

DataCollected == pc \in {"render", "send"}

InReport(section) == data[section] # Absent

\* C19: the weekday alone decides the sections of the report: news and jobs
\* every day; stocks, mutual funds and investment analysis every day but
\* Sunday (6); SAP on Saturday (5) only; career on Monday (0) and Saturday
\* only; a section that is not scheduled is absent; and _get_report_type
\* names exactly the scheduled sections.
C19_WeekdayDecidesSections ==
    DataCollected =>
        /\ InReport("news") /\ InReport("jobs")
        /\ InReport("stocks") <=> current_day # 6
        /\ InReport("mutual_funds") <=> current_day # 6
        /\ InReport("investment_analysis") <=> current_day # 6
        /\ InReport("sap") <=> current_day = 5
        /\ InReport("career") <=> current_day \in {0, 5}
        /\ "Daily" \in ReportTypes(current_day)
        /\ "Markets" \in ReportTypes(current_day) <=> InReport("stocks")
        /\ "SAP-Weekly" \in ReportTypes(current_day) <=> InReport("sap")
        /\ "Career-Analysis" \in ReportTypes(current_day) <=> InReport("career")

\* Sunday's data is collected: news and jobs are there, market data, SAP
\* and career are not
C19_Witness ==
    /\ DataCollected
    /\ current_day = 6
    /\ InReport("news") /\ InReport("jobs")
    /\ ~ InReport("stocks") /\ ~ InReport("sap") /\ ~ InReport("career")

\* validate_configuration found an issue
ConfigInvalid == config_issues # {} /\ config_issues # {"unvalidated"}

\* send_email was called for the report and did not deliver it
DeliveryFailed == reportSends > 0 /\ reportSent = 0

\* C20: main exits with status 0 exactly when generate_report completed
\* without raising, the report sent or the day skipped; it exits with a
\* nonzero status whenever the configuration is invalid or the delivery
\* fails, whether or not the error notification went out.
C20_ExitZeroExactlyOnCompletion ==
    pc = "exit" =>
        /\ exitStatus = 0 <=> outcome \in {"sent", "skipped"}
        /\ exitStatus = 0 <=> error = "none"
        /\ ConfigInvalid => exitStatus # 0
        /\ DeliveryFailed => exitStatus # 0

\* the delivery failed, the error notification went out, and main has
\* exited with status 1
C20_Witness ==
    /\ pc = "exit"
    /\ DeliveryFailed
    /\ notifySent = 1
    /\ exitStatus = 1

\* C21: a run sends at most one report email; an error notification is
\* attempted only in a run that fails, never after the report was sent; on
\* an excluded day no report and no notification is sent and no collector
\* runs.
C21_OneReportNotificationOnlyOnFailure ==
    /\ reportSends <= 1 /\ reportSent <= 1
    /\ notifyAttempts > 0 =>
          /\ reportSent = 0
          /\ outcome = "failed"
          /\ error # "none"
    /\ outcome = "sent" => notifyAttempts = 0
    /\ current_day \in EXCLUDE_DAYS =>
          /\ reportSends = 0
          /\ notifyAttempts = 0
          /\ invoked = {}

\* the run of an excluded day is over: nothing was collected or sent
C21_Witness ==
    /\ pc = "exit"
    /\ current_day \in EXCLUDE_DAYS
    /\ outcome = "skipped"
    /\ invoked = {}
    /\ reportSends = 0 /\ notifyAttempts = 0

----------------------------------------------------------------------------
(* The URL of a news item: the link of a feed entry in _parse_rss_feed,    *)
(* the href of a headline in _scrape_ap_news and _scrape_bangalore_news.   *)

\* s.startswith(prefix)
StartsWith(s, prefix) ==
    /\ Len(s) >= Len(prefix)
    /\ SubSeq(s, 1, Len(prefix)) = prefix

\* no link attribute on the entry; no <a> at the headline, or one without href
NoLink == [present |-> FALSE, value |-> ""]

Link(value) == [present |-> TRUE, value |-> value]

\* feedparser resolves a relative link of an entry against the URL of the
\* feed, so an entry's link is absent, empty, '#' or absolute
EntryLinks ==
    {NoLink, Link(""), Link("#"), Link("https://www.bbc.com/news/1"),
     Link("http://rss.cnn.com/story/2")}

\* the href of the <a> of a headline is whatever the page's author wrote
Hrefs ==
    {NoLink, Link(""), Link("#"), Link("https://www.sakshi.com/news/1"),
     Link("http://epaper.eenadu.net/2"), Link("/news/3"),
     Link("news/4.html"), Link("httpd-outage.html"),
     Link("javascript:void(0)")}

FeedUrls ==
    {"http://rss.cnn.com/rss/edition.rss",
     "http://feeds.bbci.co.uk/news/world/rss.xml",
     "https://www.thehindu.com/news/national/feeder/default.rss",
     "https://feeds.feedburner.com/ndtvnews-india-news"}

ap_source_url == "https://www.andhrajyothy.com"
blr_source_url == "https://bangaloremirror.indiatimes.com"

\* _parse_rss_feed: url = getattr(entry, 'link', feed_url);
\* if not url or url == '#': url = feed_url
EntryUrl(link, url_of_feed) ==
    LET url == IF link.present THEN link.value ELSE url_of_feed
    IN  IF url = "" \/ url = "#" THEN url_of_feed ELSE url

\* _scrape_ap_news, _scrape_bangalore_news: news_url = source['url'], then
\* href if it starts with 'http', source['url'] + href if it starts with '/'
HeadlineUrl(link, source_url) ==
    IF link.present /\ link.value # ""
    THEN IF StartsWith(link.value, "http") THEN link.value
         ELSE IF StartsWith(link.value, "/") THEN source_url \o link.value
         ELSE source_url
    ELSE source_url

LinkInit ==
    /\ EnhanceIdle
    /\ GetJobsIdle
    /\ LabelIdle
    /\ RunIdle
    /\ JobsIdle
    /\ StocksIdle
    /\ FeedIdle
    /\ DedupIdle
    /\ FiltersIdle
    /\ CategoryIdle
    /\ FetchIdle
    /\ ScoreIdle
    /\ entry_link \in EntryLinks \cup Hrefs
    /\ feed_url \in FeedUrls
    /\ news_url = ""
    /\ link_pc = "called"

\* the url of one item of _parse_rss_feed
ParseEntryLink ==
    /\ link_pc = "called"
    /\ entry_link \in EntryLinks
    /\ news_url' = EntryUrl(entry_link, feed_url)
    /\ link_pc' = "parse_rss_feed"
    /\ UNCHANGED << entry_link, feed_url, notLinkVars >>

\* the url of one item of _scrape_ap_news
ScrapeApLink ==
    /\ link_pc = "called"
    /\ entry_link \in Hrefs
    /\ news_url' = HeadlineUrl(entry_link, ap_source_url)
    /\ link_pc' = "scrape_ap_news"
    /\ UNCHANGED << entry_link, feed_url, notLinkVars >>

\* the url of one item of _scrape_bangalore_news
ScrapeBangaloreLink ==
    /\ link_pc = "called"
    /\ entry_link \in Hrefs
    /\ news_url' = HeadlineUrl(entry_link, blr_source_url)
    /\ link_pc' = "scrape_bangalore_news"
    /\ UNCHANGED << entry_link, feed_url, notLinkVars >>

LinkNext == ParseEntryLink \/ ScrapeApLink \/ ScrapeBangaloreLink

SpecLinks == LinkInit /\ [][LinkNext]_vars

\* an absolute URL names its scheme and host
IsAbsoluteUrl(url) ==
    \/ StartsWith(url, "http://") /\ Len(url) > Len("http://")
    \/ StartsWith(url, "https://") /\ Len(url) > Len("https://")

\* C22: the url of every news item made from a feed entry or from a scraped
\* headline is a non-empty absolute URL.
C22_ItemUrlAbsolute ==
    link_pc \notin {"idle", "called"} => IsAbsoluteUrl(news_url)

----------------------------------------------------------------------------
(* NewsCollector._categorize_news *)

\* the word lists of the topical categories, in the order of the elif chain
CategoryOrder == << "Markets", "Technology", "Economy", "Politics", "Health" >>

CategoryWords ==
    [Markets |-> {"stock", "market", "share", "nse", "bse", "sensex", "nifty",
                  "trading"},
     Technology |-> {"tech", "technology", "software", "ai", "digital",
                     "startup"},
     Economy |-> {"economy", "gdp", "inflation", "fiscal", "budget", "finance"},
     Politics |-> {"politics", "election", "government", "minister", "policy"},
     Health |-> {"health", "medical", "hospital", "covid", "healthcare"}]

\* the first category of the chain, from position i on, with a word in content
RECURSIVE FirstCategory(_, _)
FirstCategory(content, i) ==
    IF i > Len(CategoryOrder) THEN "General"
    ELSE IF ContainsAny(CategoryWords[CategoryOrder[i]], content)
    THEN CategoryOrder[i]
    ELSE FirstCategory(content, i + 1)

\* _categorize_news looking at the topical categories before the excluded ones
_categorize_news_topics_first(title, description) ==
    LET content == Lower(title \o " " \o description)
        topic == FirstCategory(content, 1)
    IN  IF topic # "General" THEN topic
        ELSE IF ContainsAny(excluded_categories, content) THEN "Excluded"
        ELSE "General"

_categorize_news(title, description) ==
    LET content == Lower(title \o " " \o description)
    IN  IF ContainsAny(excluded_categories, content) THEN "Excluded"
        ELSE FirstCategory(content, 1)

HeadlineTitles ==
    { "Important Business Update", "Sports Update",
      "Sensex gains on tech rally", "New software for hospitals",
      "Budget raises health spending", "Minister opens hospital",
      "Hospital wing opens", "Rain expected",
      "CRICKET board meets market regulator", "Officials said nothing" }

HeadlineDescriptions ==
    { "", "Stock market news", "Cricket match results", "Election due",
      "A Bollywood star attended", "Covid cases fall", "Inflation eases",
      "Startup raises funds", "Roads reopened", "No description available" }

LabelInit ==
    /\ EnhanceIdle
    /\ GetJobsIdle
    /\ RunIdle
    /\ JobsIdle
    /\ StocksIdle
    /\ FeedIdle
    /\ DedupIdle
    /\ FiltersIdle
    /\ CategoryIdle
    /\ FetchIdle
    /\ ScoreIdle
    /\ LinkIdle
    /\ headline \in [title : HeadlineTitles, description : HeadlineDescriptions]
    /\ label = ""
    /\ label_pc = "called"

CategorizeNews ==
    /\ label_pc = "called"
    /\ label' = _categorize_news(headline.title, headline.description)
    /\ label_pc' = "returned"
    /\ UNCHANGED << headline, notLabelVars >>

LabelNext == CategorizeNews

SpecLabel == LabelInit /\ [][LabelNext]_vars

\* a word of the set occurs in the text, in either letter case
HasWord(words, text) ==
    \E word \in words :
        \E i \in 1..(Len(text) - Len(word) + 1) : OccursAt(word, text, i)

\* C23: the label is 'Excluded' exactly when an excluded keyword occurs in
\* the title or in the description, whatever topical words occur, and that
\* is exactly when _exclude_categories drops the item; otherwise the label
\* is the first of Markets, Technology, Economy, Politics, Health with a
\* word in the title or the description, and 'General' when there is none.
C23_ExcludedFirstThenFirstTopic ==
    label_pc = "returned" =>
        LET text == headline.title \o " " \o headline.description
            excluded == \/ HasWord(excluded_categories, headline.title)
                        \/ HasWord(excluded_categories, headline.description)
            matching == {i \in 1..Len(CategoryOrder) :
                            HasWord(CategoryWords[CategoryOrder[i]], text)}
        IN  /\ label = "Excluded" <=> excluded
            /\ label = "Excluded" <=> _exclude_categories(<< headline >>) = <<>>
            /\ (~excluded /\ matching = {}) => label = "General"
            /\ (~excluded /\ matching # {}) =>
                  \E i \in matching :
                      /\ label = CategoryOrder[i]
                      /\ \A j \in matching : i <= j

\* a headline with an excluded keyword and a Markets word is labelled
C23_Witness ==
    /\ label_pc = "returned"
    /\ headline.title = "CRICKET board meets market regulator"
    /\ label = "Excluded"

----------------------------------------------------------------------------
(* JobsCollector.get_jobs from the jobs found on: _filter_by_date_and_package *)
(* and _categorize_jobs.  A day is a number; the time of day is 0 at       *)
(* midnight and 1 later in the day.                                        *)

MaxJobs == 2

Today == 20

\* timedelta(days=10)
WindowDays == 10

\* a posted_date that strptime reads, and one it does not
PostedOn(day) == [parsable |-> TRUE, day |-> day]
Unparsable == [parsable |-> FALSE, day |-> 0]

Posting(title, package, posted_date) ==
    [title |-> title, description |-> "", requirements |-> "",
     package |-> package, posted_date |-> posted_date]

JobPostings ==
    { Posting("SAP Finance Architect", "40-45 LPA", PostedOn(Today - 9)),
      Posting("SAP Finance Architect", "39 LPA", PostedOn(Today - 9)),
      Posting("SAP Finance Architect", "Not disclosed", PostedOn(Today)),
      Posting("SAP AI Lead", "50+ LPA", PostedOn(Today - WindowDays)),
      Posting("SAP AI Lead", "50+ LPA", PostedOn(Today - WindowDays - 1)),
      Posting("TensorFlow HANA Engineer", "40-45 LPA", Unparsable),
      Posting("Python Developer", "45 LPA", PostedOn(Today)),
      Posting("S/4HANA Cloud Manager", "45-55 LPA", PostedOn(Today - 1)) }

\* the lists of at most MaxJobs postings, each job with its position as id
WithIds(list) ==
    [i \in 1..Len(list) |->
        [id |-> i, title |-> list[i].title,
         description |-> list[i].description,
         requirements |-> list[i].requirements,
         package |-> list[i].package, posted_date |-> list[i].posted_date]]

JobLists ==
    UNION { { WithIds(list) : list \in [1..n -> JobPostings] } : n \in 0..MaxJobs }

\* job_date < cutoff_date: job_date is midnight of the posted day, cutoff_date
\* is datetime.now() - timedelta(days=10)
BeforeCutoff(posted_date, time_now) ==
    \/ posted_date.day < time_now.day - WindowDays
    \/ posted_date.day = time_now.day - WindowDays /\ 0 < time_now.time

\* the date check of the loop: continue when the date is read and is before
\* the cutoff; a date that is not read passes
TooOld(job, time_now) ==
    job.posted_date.parsable /\ BeforeCutoff(job.posted_date, time_now)

\* _filter_by_date_and_package on jobs whose package is a string
_filter_by_date_and_package(list, time_now) ==
    SelectSeq(list, LAMBDA job : ~TooOld(job, time_now)
                                 /\ PackageAtLeast(job, 40))

GetJobsInit ==
    /\ EnhanceIdle
    /\ RunIdle
    /\ StocksIdle
    /\ FeedIdle
    /\ DedupIdle
    /\ FiltersIdle
    /\ CategoryIdle
    /\ FetchIdle
    /\ ScoreIdle
    /\ LinkIdle
    /\ LabelIdle
    /\ all_jobs \in JobLists
    /\ clock \in [day : {Today}, time : {0, 1}]
    /\ jobs = <<>>
    /\ categorized = NotCategorized
    /\ jobs_pc = "found"

\* get_jobs: recent_jobs = self._filter_by_date_and_package(all_jobs)
FilterByDateAndPackage ==
    /\ jobs_pc = "found"
    /\ jobs' = _filter_by_date_and_package(all_jobs, clock)
    /\ jobs_pc' = "collected"
    /\ UNCHANGED << categorized, notJobVars >>

GetJobsNext == FilterByDateAndPackage \/ CategorizeJobs

SpecGetJobs == GetJobsInit /\ [][GetJobsNext]_vars

\* every entry of the two returned lists
Returned ==
    {categorized.sap_category[i] : i \in 1..Len(categorized.sap_category)}
    \cup {categorized.ai_transition_category[i] :
             i \in 1..Len(categorized.ai_transition_category)}

\* C24: no job with a relevance_score of 0 is in either returned category.
C24_NoZeroScoreReturned ==
    jobs_pc = "categorized" => \A job \in Returned : job.relevance_score > 0

\* the ids of a list of jobs, in list order
IdsOf(list) == [i \in 1..Len(list) |-> list[i].id]

\* the job was posted on the calendar day ten days before today or later,
\* or its date cannot be read
PostedWithinWindow(job) ==
    \/ ~job.posted_date.parsable
    \/ job.posted_date.day >= clock.day - WindowDays

\* the first number of the package is at least 40
PaysEnough(job) ==
    /\ FirstNumber(job.package) # ""
    /\ ToInt(FirstNumber(job.package)) >= 40

\* C28: _filter_by_date_and_package keeps, in their order, exactly the jobs
\* posted within the last 10 days, the day 10 days before today included and
\* an unreadable date counting as recent, whose package has a first number
\* of at least 40.
C28_KeptExactlyRecentAndPaid ==
    jobs_pc \in {"collected", "categorized"} =>
        IdsOf(jobs) = IdsOf(SelectSeq(all_jobs,
                          LAMBDA job : PostedWithinWindow(job) /\ PaysEnough(job)))

\* the entry of the result is the job of the filtered list with its id
JobOf(entry) == jobs[CHOOSE i \in 1..Len(jobs) : jobs[i].id = entry.id]

NonIncreasing(list) ==
    \A i \in 1..(Len(list) - 1) :
        list[i].relevance_score >= list[i + 1].relevance_score

\* the job has a word of the AI list and one of the SAP background list
MatchesAiTransition(job) ==
    LET content == JobContent(job) IN
    /\ ContainsAny({"ai", "ml", "machine learning", "data science",
                    "artificial intelligence", "python", "tensorflow"}, content)
    /\ ContainsAny({"sap", "hana", "fico", "erp"}, content)

\* the job has a word of the SAP list
MatchesSap(job) ==
    ContainsAny({"sap", "hana", "cloud", "finance", "controlling"},
                JobContent(job))

\* C29: _categorize_jobs puts every job in at most one of the two lists,
\* gives it the score of the scoring function of that list, orders each
\* list by non-increasing relevance_score, and leaves out a job that
\* matches the keywords of neither category.
C29_OneCategoryScoredAndSorted ==
    jobs_pc = "categorized" =>
        LET sap == categorized.sap_category
            ai == categorized.ai_transition_category
        IN  /\ \A i \in 1..Len(jobs) :
                  Cardinality({k \in 1..Len(sap) : sap[k].id = jobs[i].id})
                  + Cardinality({k \in 1..Len(ai) : ai[k].id = jobs[i].id}) <= 1
            /\ \A k \in 1..Len(sap) :
                  /\ sap[k].category = "SAP"
                  /\ sap[k].relevance_score =
                        _calculate_sap_score(JobOf(sap[k]),
                            ContainsAny({"ai", "cloud", "automation",
                                         "analytics"}, JobContent(JobOf(sap[k]))))
            /\ \A k \in 1..Len(ai) :
                  /\ ai[k].category = "AI Transition"
                  /\ ai[k].relevance_score =
                        _calculate_ai_transition_score(JobOf(ai[k]))
            /\ NonIncreasing(sap) /\ NonIncreasing(ai)
            /\ \A i \in 1..Len(jobs) :
                  (~MatchesAiTransition(jobs[i]) /\ ~MatchesSap(jobs[i]))
                      => \A entry \in Returned : entry.id # jobs[i].id

\* two jobs were put in the SAP list and the sort has exchanged them
C29_Witness ==
    /\ jobs_pc = "categorized"
    /\ Len(categorized.sap_category) = 2
    /\ categorized.sap_category[1].id > categorized.sap_category[2].id
    /\ categorized.sap_category[1].relevance_score
          > categorized.sap_category[2].relevance_score

----------------------------------------------------------------------------
(* StockCollector._enhance_with_yfinance on the stock of a Moneycontrol    *)
(* row.  A dict is a function from its keys; prices and changes are whole  *)
(* numbers, scores are in tenths.                                          *)

\* dict.update(new)
Update(dict, new) == new @@ dict

\* the stock_info _scrape_moneycontrol_stocks builds from a row
ScrapedStocks ==
    { [symbol |-> "RELIANCE", name |-> "Reliance Industries",
       current_price |-> price, change |-> change,
       change_percent |-> change, volume |-> 0, market_cap |-> 0,
       pe_ratio |-> "N/A",
       overall_score |-> _calculate_simple_score(change),
       recommendation |-> _get_recommendation_from_change(change),
       source |-> "MoneyControl"] :
        price \in PagePrices, change \in {-50, 0, 60} }

\* the dict _get_yfinance_stock_info returns for a symbol it knows
YfinanceQuotes ==
    { [symbol |-> "RELIANCE", name |-> "Reliance Industries Limited",
       current_price |-> price, change |-> 2, change_percent |-> 20,
       volume |-> volume, market_cap |-> 1700, pe_ratio |-> "24.5",
       overall_score |-> score \div 100,
       recommendation |-> _get_recommendation(score),
       sector |-> sector, industry |-> "Oil & Gas"] :
        price \in {ClosePrice, ClosePrice + 20}, volume \in {0, 1000},
        score \in {5500, 7200}, sector \in {"Energy", "N/A"} }

\* the lookup raises, returns None, or returns a quote
YfinanceLookups ==
    { [outcome |-> "raises", data |-> <<>>],
      [outcome |-> "none", data |-> <<>>] }
    \cup { [outcome |-> "quote", data |-> q] : q \in YfinanceQuotes }

InfoFields == {"volume", "market_cap", "pe_ratio", "sector", "industry"}

PriceFields == {"current_price", "change", "change_percent", "overall_score",
                "recommendation"}

\* the part of a dict at the keys of the set
Restrict(dict, keys) == [k \in keys |-> dict[k]]

\* _enhance_with_yfinance_body overwriting the price fields whatever the
\* scraped price is
_enhance_with_yfinance_body_always(info, lookup) ==
    IF lookup.outcome = "quote"
    THEN Update(Update(info, Restrict(lookup.data, InfoFields)),
                Restrict(lookup.data, PriceFields))
    ELSE info

\* _enhance_with_yfinance from the lookup on: the dict after the call
_enhance_with_yfinance_body(info, lookup) ==
    IF lookup.outcome = "quote"
    THEN LET with_info == Update(info, Restrict(lookup.data, InfoFields))
         IN  IF with_info["current_price"] = 0
             THEN Update(with_info, Restrict(lookup.data, PriceFields))
             ELSE with_info
    ELSE info

EnhanceInit ==
    /\ RunIdle
    /\ JobsIdle
    /\ StocksIdle
    /\ FeedIdle
    /\ DedupIdle
    /\ FiltersIdle
    /\ CategoryIdle
    /\ FetchIdle
    /\ ScoreIdle
    /\ LinkIdle
    /\ LabelIdle
    /\ GetJobsIdle
    /\ scraped_stock \in ScrapedStocks
    /\ yf_lookup \in YfinanceLookups
    /\ enhanced = <<>>
    /\ enhance_pc = "called"

\* _scrape_moneycontrol_stocks: self._enhance_with_yfinance(stock_info)
EnhanceWithYfinance ==
    /\ enhance_pc = "called"
    /\ enhanced' = _enhance_with_yfinance_body(scraped_stock, yf_lookup)
    /\ enhance_pc' = "returned"
    /\ UNCHANGED << scraped_stock, yf_lookup, notEnhanceVars >>

EnhanceNext == EnhanceWithYfinance

SpecEnhance == EnhanceInit /\ [][EnhanceNext]_vars

\* C25: the five price fields of a scraped stock are overwritten by the
\* quote exactly when the scraped current_price is 0; with another price
\* they stay and only volume, market_cap, pe_ratio, sector and industry are
\* taken from the quote; when the lookup raises or gives nothing the stock
\* is unchanged.
C25_PriceFieldsOnlyWhenZero ==
    enhance_pc = "returned" =>
        IF yf_lookup.outcome # "quote"
        THEN enhanced = scraped_stock
        ELSE /\ DOMAIN enhanced = DOMAIN scraped_stock \cup InfoFields
             /\ \A f \in InfoFields : enhanced[f] = yf_lookup.data[f]
             /\ \A f \in PriceFields :
                   enhanced[f] = IF scraped_stock.current_price = 0
                                 THEN yf_lookup.data[f]
                                 ELSE scraped_stock[f]
             /\ \A f \in DOMAIN scraped_stock \ (InfoFields \cup PriceFields) :
                   enhanced[f] = scraped_stock[f]

\* a stock scraped with a price was enhanced: the volume is the quote's, the
\* price, the score and the recommendation are the scraped ones
C25_Witness ==
    /\ enhance_pc = "returned"
    /\ yf_lookup.outcome = "quote"
    /\ scraped_stock.current_price # 0
    /\ enhanced["volume"] = 1000
    /\ enhanced["current_price"] = scraped_stock.current_price
    /\ enhanced["recommendation"] # yf_lookup.data.recommendation

----------------------------------------------------------------------------
(* The lists the news getters return *)

\* C27: no item a news getter returns has an excluded keyword in its title
\* or its description, the scraped regional headlines and the sample items
\* included.
C27_NoExcludedKeywordReturned ==
    category_pc = "returned" =>
        \A i \in 1..Len(category_result) :
            /\ ~HasExcludedKeyword(category_result[i].title)
            /\ ~HasExcludedKeyword(category_result[i].description)

\* the items a getter has merged, deduplicated: what it sorts and cuts
DeduplicatedNews ==
    _remove_duplicates(IF news_category = "regional"
                       THEN regional_news_merged
                       ELSE CollectFeeds(sources,
                                         CategoryLimit[news_category], 1))

\* C26: the list of a news category holds the newest of the deduplicated
\* items: at most 10 of them for global and india, at most 8 for business
\* and regional, in non-increasing order of published_timestamp, and no
\* item that is left out is strictly newer than an item that is returned.
C26_NewestItemsReturnedInOrder ==
    category_pc = "returned" =>
        LET pool == DeduplicatedNews
            top == IF news_category \in {"global", "india"} THEN 10 ELSE 8
            chosen == {category_result[i] : i \in 1..Len(category_result)}
            left_out == {pool[i] : i \in 1..Len(pool)} \ chosen
        IN  /\ Len(category_result) = Min(top, Len(pool))
            /\ chosen \subseteq {pool[i] : i \in 1..Len(pool)}
            /\ \A i \in 1..(Len(category_result) - 1) :
                  GetTimestamp(category_result[i])
                      >= GetTimestamp(category_result[i + 1])
            /\ \A item \in left_out :
                  \A i \in 1..Len(category_result) :
                      GetTimestamp(item) <= GetTimestamp(category_result[i])

\* a getter has returned a full list, cut from a longer one in which an
\* older item came before a newer one
C26_Witness ==
    /\ category_pc = "returned"
    /\ Len(category_result) = CategoryTop[news_category]
    /\ LET pool == DeduplicatedNews
       IN  /\ Len(pool) > Len(category_result)
           /\ \E i \in 1..Len(pool) : \E j \in (i + 1)..Len(pool) :
                  GetTimestamp(pool[i]) < GetTimestamp(pool[j])

----------------------------------------------------------------------------
(* Termination of the run *)

\* main is one sequential process and every step of it is a call that
\* returns or raises: a step that can be taken is eventually taken (every
\* step moves pc)
FairSpec == Spec /\ WF_pc(Next)

\* the run is over on an excluded day: exit status 0, nothing sent
RunSkipped ==
    /\ outcome = "skipped"
    /\ should_skip_today(current_day, EXCLUDE_DAYS)
    /\ exitStatus = 0
    /\ reportSends = 0
    /\ notifyAttempts = 0

\* the run is over with the report handed to send_email, which returned True
RunSent ==
    /\ outcome = "sent"
    /\ exitStatus = 0
    /\ reportSends = 1
    /\ error = "none"
    /\ notifyAttempts = 0

\* the run is over with an exception: sys.exit(1)
RunFailed ==
    /\ outcome = "failed"
    /\ exitStatus = 1
    /\ error # "none"
    /\ notifyAttempts = 1

RunEnded ==
    /\ pc = "exit"
    /\ Cardinality({o \in {"skipped", "sent", "failed"} :
                       \/ o = "skipped" /\ RunSkipped
                       \/ o = "sent" /\ RunSent
                       \/ o = "failed" /\ RunFailed}) = 1

\* C30: when every external call returns or raises, every run that main
\* starts eventually ends, and it ends in exactly one of three outcomes:
\* skipped, report sent, or failed; no run waits or loops forever.
C30_RunEndsInOneOutcome == <>[]RunEnded

\* a run has ended with the report sent although a collector raised
C30_Witness ==
    /\ pc = "exit"
    /\ RunSent
    /\ raisedCalls # {}

====
